---- MODULE Spec2Model ----
(***************************************************************************)
(* Model of the Pi-hole API client of terraform-provider-pihole:           *)
(*   - the record client (CreateDNSRecord / UpdateDNSRecord /              *)
(*     DeleteDNSRecord and their CNAME twins) against an appliance that    *)
(*     stores the lines it is sent              (specification SpecRec),   *)
(*   - the retry executor and the authentication loop                      *)
(*                                              (specification SpecRetry), *)
(*   - the process-wide client cache            (specification SpecCache). *)
(* Strings are sequences of tokens, so that splitting a wire line and      *)
(* escaping a URL path are computed, not assumed.                          *)
(***************************************************************************)
EXTENDS Integers, Sequences, FiniteSets, TLC

\* ------------------------------------------------------------------------
\* Bounds of the model
\* ------------------------------------------------------------------------
MaxInitRecords == 2
MaxFaults == 1
MaxRetryAttempts == 1

\* ------------------------------------------------------------------------
\* Values the operations are exercised with
\* ------------------------------------------------------------------------
Kinds == {"hosts", "cnameRecords"}
Domains == {<<"a.lan">>, <<"b.lan">>}
Values == {<<"v1">>, <<"v2">>}
Garbage == <<"garbage">>

\* HTTP status codes (net/http constants used by the client)
StatusOK == 200
StatusCreated == 201
StatusNoContent == 204
StatusBadRequest == 400
StatusUnauthorized == 401
StatusNotFound == 404
StatusTooManyRequests == 429
StatusInternalServerError == 500

\* ------------------------------------------------------------------------
\* Wire format of records
\* ------------------------------------------------------------------------
Sep(kind) == IF kind = "hosts" THEN " " ELSE ","

\* fmt.Sprintf("%s %s", ip, domain) / fmt.Sprintf("%s,%s", domain, target)
RecordValue(kind, domain, value) ==
  IF kind = "hosts" THEN value \o <<" ">> \o domain
                    ELSE domain \o <<",">> \o value

\* mutant: the line is split at its last separator
SplitN2_Last(s, sep) ==
  IF \E i \in 1..Len(s) : s[i] = sep
    THEN LET i == CHOOSE k \in 1..Len(s) :
                    s[k] = sep /\ \A j \in (k + 1)..Len(s) : s[j] # sep
         IN  <<SubSeq(s, 1, i - 1), SubSeq(s, i + 1, Len(s))>>
    ELSE <<s>>

\* strings.SplitN(s, sep, 2)
SplitN2(s, sep) ==
  IF \E i \in 1..Len(s) : s[i] = sep
    THEN LET i == CHOOSE k \in 1..Len(s) :
                    s[k] = sep /\ \A j \in 1..(k - 1) : s[j] # sep
         IN  <<SubSeq(s, 1, i - 1), SubSeq(s, i + 1, Len(s))>>
    ELSE <<s>>

\* the decode loop of GetDNSRecords / GetCNAMERecords
ParseRecords(kind, lines) ==
  LET good == SelectSeq(lines, LAMBDA l : Len(SplitN2(l, Sep(kind))) = 2)
  IN  [i \in 1..Len(good) |->
         LET parts == SplitN2(good[i], Sep(kind))
         IN  IF kind = "hosts"
               THEN [Domain |-> parts[2], Value |-> parts[1]]
               ELSE [Domain |-> parts[1], Value |-> parts[2]]]

\* index of the first record of the domain, 0 if there is none
\* (the "for _, record := range currentRecords" loops)
FindRecord(records, domain) ==
  IF \E i \in 1..Len(records) : records[i].Domain = domain
    THEN CHOOSE i \in 1..Len(records) :
           records[i].Domain = domain
           /\ \A j \in 1..(i - 1) : records[j].Domain # domain
    ELSE 0

\* url.PathEscape on the tokens that occur: in a path segment a space
\* becomes %20 and a comma %2C; the characters of a host name and of an
\* address stay as they are
EscapeToken(t) ==
  IF t = " " THEN "%20"
  ELSE IF t = "," THEN "%2C"
  ELSE t
PathEscape(s) == [i \in 1..Len(s) |-> EscapeToken(s[i])]

\* the appliance's decoding of a path segment
UnescapeToken(t) ==
  IF t = "%20" THEN " "
  ELSE IF t = "%2C" THEN ","
  ELSE t
PathUnescape(s) == [i \in 1..Len(s) |-> UnescapeToken(s[i])]

\* ------------------------------------------------------------------------
\* Transport errors and their classification
\* ------------------------------------------------------------------------
\* error texts of net/http, as sequences of phrases
ErrRefused == <<"dial tcp", "connection refused">>
ErrEOF == <<"EOF">>
ErrTimeout == <<"context deadline exceeded", "timeout">>
ErrReset == <<"read tcp", "connection reset">>
ErrNoHost == <<"dial tcp", "no such host">>
ErrX509 == <<"x509", "certificate signed by unknown authority">>
TransportErrors == {ErrRefused, ErrEOF, ErrTimeout, ErrReset, ErrNoHost, ErrX509}

\* strings.Contains(errStr, phrase)
Contains(errStr, phrase) == \E i \in 1..Len(errStr) : errStr[i] = phrase

\* mutant: every transport error is taken as retryable
isRetryableError_Any(err) == Len(err) >= 0

isRetryableError(err) ==
  \/ Contains(err, "connection refused")
  \/ Contains(err, "EOF")
  \/ Contains(err, "timeout")
  \/ Contains(err, "connection reset")

\* ------------------------------------------------------------------------
\* State
\* ------------------------------------------------------------------------
VARIABLES
  store,      \* the appliance: for each kind, the list of wire lines it holds
  kind,       \* record client: the record kind the caller works on
  config,     \* ClientConfig of the client (RetryAttempts, RetryBackoffMs)
  call,       \* record client: the public operation in progress
  stack,      \* record client: the call stack below the public operation
  pc,         \* record client: "idle", "list" (before the GET), "mutate"
  target,     \* record client: the record value the pending PUT/DELETE addresses
  attempt,    \* the loop variable of makeRequestWithRetry / authenticateWithRetry
  log,        \* requests sent during the operation in progress
  answers,    \* what each of these requests met: a response, or no response
  faulty,     \* a fault was injected during the operation in progress
  hist,       \* summaries of the last histDepth completed operations
  histDepth,  \* how many completed operations are remembered
  faults,     \* number of faults the environment may still inject
  lastOp,     \* for each domain, the last completed operation on it (kept in
              \* the runs that start with an empty appliance)
  fromEmpty   \* the appliance held no line of this kind at the start

recVars == <<store, kind, config, call, stack, pc, target, attempt, log, answers, faulty,
             hist, histDepth, faults, lastOp, fromEmpty>>

VARIABLES
  rcall,      \* retry loops: the call in progress (function, retries, backoff)
  rpc,        \* retry loops: "idle", "running", "returned"
  rattempt,   \* retry loops: the loop variable attempt
  lastErr,    \* retry loops: the local variable lastErr
  sent,       \* retry loops: the outcomes of the requests sent by this call
  sleeps,     \* retry loops: the durations slept by this call, in ms
  rresult,    \* retry loops: what the call returned
  session     \* the client's SessionID and CSRFToken

retryVars == <<rcall, rpc, rattempt, lastErr, sent, sleeps, rresult, session>>

VARIABLES
  clientCache, \* the global map from cache key to client
  cacheMutex,  \* the global RWMutex: the readers and the writer holding it
  clients,     \* the PiholeClient objects created so far (a client is its index)
  cpc,         \* cache callers: where each caller is
  creq,        \* cache callers: the arguments of the call in progress
  cret,        \* cache callers: what the last call returned
  clears,      \* number of clearClientCache calls made
  authBudget,  \* number of authentications the environment may still fail
  presented,   \* the pairs presented to getOrCreateClient since the last clear
  given,       \* for each pair, the clients returned for it since the last clear
  authRuns,    \* NewPiholeClient runs since the last clear
  authOks      \* successful NewPiholeClient runs since the last clear

cacheVars == <<clientCache, cacheMutex, clients, cpc, creq, cret, clears,
               authBudget, presented, given, authRuns, authOks>>

VARIABLES
  qpc,       \* callers of a held client: where each is in makeRequestWithRetry
  qreq,      \* callers of a held client: operation, client and attempt
  qhdr,      \* callers of a held client: the headers set on the request so far
  lastSent   \* the last request a caller handed to the transport

sessVars == <<qpc, qreq, qhdr, lastSent>>

VARIABLES
  appConfig,  \* the appliance: its configuration document, section by section
  cop,        \* config client: the last GetConfig / SetConfig call
  clog,       \* config client: the requests that call sent
  cres,       \* config client: what that call returned
  cprev,      \* the appliance's configuration when that call began
  ncalls,     \* configuration calls made so far
  cstate,     \* pihole_config resource: its state (key, value, id), if any
  crop        \* pihole_config resource: the last operation on it

cfgVars == <<appConfig, cop, clog, cres, cprev, ncalls, cstate, crop>>

VARIABLES
  arg,        \* the input of a function of the provider that keeps no state
  out         \* what that function returned for it

fnVars == <<arg, out>>

VARIABLES
  valid,      \* the appliance: the clients whose session it still accepts
  qres        \* callers of a held client: what the last operation returned

staleVars == <<valid, qres>>

VARIABLES
  rstate,     \* a record resource: its state (domain, value, id), if any
  rop         \* what was last done: a Read, or a change by another actor

resVars == <<rstate, rop>>

\* each caller's position in an operation run next to another caller
VARIABLES
  up
upVars == <<up>>

vars == <<recVars, retryVars, cacheVars, sessVars, cfgVars, fnVars, staleVars, resVars,
          upVars>>

\* the callers of the cache (goroutines configuring a provider)
Procs == {"g1", "g2"}
\* endpoints and credentials are free-form strings of the configuration
\* the pairs presented: two that differ in where the "|" falls, and a third
Pairs == {[url |-> <<"http://h">>, password |-> <<"y">>],
          [url |-> <<"http://h">>, password |-> <<"x", "|", "y">>],
          [url |-> <<"http://h", "|", "x">>, password |-> <<"y">>]}
NoReq == [op |-> "none"]
NoRet == [client |-> 0, via |-> "none"]
EmptyMap == [k \in {} |-> 0]

\* a JSON document: an object of named members, or a scalar
Map(f) == [kind |-> "map", m |-> f]
Leaf(v) == [kind |-> "leaf", v |-> v]
NoMembers == [k \in {} |-> 0]
NoConfigCall == [name |-> "none"]
NoState == [present |-> FALSE]

\* no caller runs a record operation next to another caller
NoUpsert == [pc |-> "idle", domain |-> <<>>, value |-> <<>>, target |-> <<>>,
             result |-> "none"]

UpIdle == up = [p \in Procs |-> NoUpsert]

\* no record resource is managed
ResIdle ==
  /\ rstate = [present |-> FALSE]
  /\ rop = [name |-> "none"]

\* no session has been granted and no operation has returned
StaleIdle ==
  /\ valid = {}
  /\ qres = [p \in Procs |-> "none"]

NoArg == [kind |-> "none", lines |-> <<>>]
NoOut == [fn |-> "none"]

\* no such function has been called
FnIdle ==
  /\ arg = NoArg
  /\ out = NoOut

\* no configuration call has been made; the appliance holds no section
CfgIdle ==
  /\ appConfig = Map(NoMembers)
  /\ cop = NoConfigCall
  /\ clog = <<>>
  /\ cres = [ok |-> TRUE, err |-> "none"]
  /\ cprev = Map(NoMembers)
  /\ ncalls = 0
  /\ cstate = NoState
  /\ crop = NoConfigCall

NoQReq == [op |-> "none", client |-> 0, attempt |-> 0]
NoSent == [op |-> "none"]

\* no caller is using a client it holds
SessIdle ==
  /\ qpc = [p \in Procs |-> "idle"]
  /\ qreq = [p \in Procs |-> NoQReq]
  /\ qhdr = [p \in Procs |-> {}]
  /\ lastSent = NoSent

\* the cache at rest
CacheIdle ==
  /\ clientCache = EmptyMap
  /\ cacheMutex = [readers |-> {}, writer |-> "none"]
  /\ clients = <<>>
  /\ cpc = [p \in Procs |-> "idle"]
  /\ creq = [p \in Procs |-> NoReq]
  /\ cret = [p \in Procs |-> NoRet]
  /\ clears = 0
  /\ authBudget = 0
  /\ presented = {}
  /\ given = [a \in Pairs |-> {}]
  /\ authRuns = 0
  /\ authOks = 0

NoSession == [SessionID |-> "", CSRFToken |-> ""]
NoRCall == [fn |-> "none", retries |-> 0, backoffMs |-> 0]
NoErr == [attempt |-> 0, what |-> "nil"]
NoResult == [kind |-> "none"]

\* the retry loops at rest
RetryIdle ==
  /\ rcall = NoRCall
  /\ rpc = "idle"
  /\ rattempt = 0
  /\ lastErr = NoErr
  /\ sent = <<>>
  /\ sleeps = <<>>
  /\ rresult = NoResult
  /\ session = NoSession

\* ------------------------------------------------------------------------
\* The appliance (an appliance that stores what it is sent)
\* ------------------------------------------------------------------------
HasLine(lines, line) == \E i \in 1..Len(lines) : lines[i] = line

\* GET lists the lines; PUT <line> adds the line; DELETE <line> removes it
Serve(lines, req) ==
  LET line == PathUnescape(req.path) IN
  CASE req.method = "GET" ->
         [status |-> StatusOK, body |-> "config", lines |-> lines]
    [] req.method = "PUT" ->
         IF HasLine(lines, line)
           THEN [status |-> StatusBadRequest, body |-> "item already present",
                 lines |-> lines]
           ELSE [status |-> StatusCreated, body |-> "config",
                 lines |-> Append(lines, line)]
    [] req.method = "DELETE" ->
         IF HasLine(lines, line)
           THEN [status |-> StatusNoContent, body |-> "",
                 lines |-> SelectSeq(lines, LAMBDA l : l # line)]
           ELSE [status |-> StatusNotFound, body |-> "item not found",
                 lines |-> lines]

\* ------------------------------------------------------------------------
\* Record client
\* ------------------------------------------------------------------------
Frame(fn, phase) == [fn |-> fn, phase |-> phase]
Ok == [ok |-> TRUE, status |-> 0]
Err(status, body) == [ok |-> FALSE, status |-> status, body |-> body]
\* the error of a transport failure, which has no status and no body
TransportErr == Err(0, "")
\* what a request met: the response's status and body, or no response
Answer(status, body) == [status |-> status, body |-> body]
NoAnswer == Answer(0, "")
NoCall == [name |-> "none", domain |-> <<>>, value |-> <<>>, preVals |-> <<>>]

Request(method, path) == [method |-> method, ep |-> kind, path |-> path]
Mutating(req) == req.method \in {"PUT", "DELETE"}

\* The top frame returns r.  Create returns what the UpdateDNSRecord it
\* called returns; Update returns the error of its Delete, calls Create after
\* a successful Delete, and returns what that Create returns.
RECURSIVE Unwind(_, _)
Unwind(stk, r) ==
  LET rest == SubSeq(stk, 1, Len(stk) - 1) IN
  IF rest = <<>>
    THEN [done |-> TRUE, stack |-> <<>>]
    ELSE LET top == rest[Len(rest)] IN
         IF top.fn = "Update" /\ top.phase = "del" /\ r.ok
           THEN [done |-> FALSE,
                 stack |-> SubSeq(rest, 1, Len(rest) - 1)
                             \o <<Frame("Update", "create"), Frame("Create", "")>>]
           ELSE Unwind(rest, r)

Summary(r, newlog, newans, newfaulty) ==
  [name |-> call.name, domain |-> call.domain, value |-> call.value,
   preVals |-> call.preVals, log |-> newlog, answers |-> newans,
   result |-> r, faulty |-> newfaulty]

\* what a returning frame leaves: the next frame to run, or the completed call
Return(r, newlog, newans, newfaulty) ==
  LET u == Unwind(stack, r) IN
  IF u.done
    THEN /\ pc' = "idle"
         /\ stack' = <<>>
         /\ call' = NoCall
         /\ hist' = IF Len(hist) < histDepth
                      THEN Append(hist, Summary(r, newlog, newans, newfaulty))
                      ELSE Append(Tail(hist), Summary(r, newlog, newans, newfaulty))
         /\ lastOp' = IF fromEmpty /\ call.name # "List"
                        THEN [lastOp EXCEPT ![call.domain] =
                                IF ~r.ok THEN <<"failed">>
                                ELSE IF call.name = "Delete" THEN <<"deleted">>
                                ELSE call.value]
                        ELSE lastOp
         /\ log' = <<>>
         /\ answers' = <<>>
         /\ faulty' = FALSE
    ELSE /\ pc' = "list"
         /\ stack' = u.stack
         /\ log' = newlog
         /\ answers' = newans
         /\ faulty' = newfaulty
         /\ UNCHANGED <<call, hist, lastOp>>

\* the outcomes of one attempt: the appliance answers; it fails with 500;
\* it serves the request and reports success with another 2xx status; or
\* the transport fails
OtherSuccess == {"http200", "http201", "http204"}
Outcomes ==
  {"resp"} \cup (IF faults > 0
                   THEN {"http500", "refused", "nohost"} \cup OtherSuccess
                   ELSE {})
\* a list may also be answered 200 with a body that is not JSON
ListOutcomes == Outcomes \cup (IF faults > 0 THEN {"badjson"} ELSE {})
OutcomeErr(o) == IF o = "refused" THEN ErrRefused ELSE ErrNoHost
OutcomeStatus(o) ==
  CASE o = "http200" -> StatusOK
    [] o = "http201" -> StatusCreated
    [] o = "http204" -> StatusNoContent
    [] OTHER -> StatusInternalServerError

\* the request reaches the appliance and is served
Reaches(o) == o = "resp" \/ o = "badjson" \/ o \in OtherSuccess

\* what the client receives when the appliance would answer ans
Met(o, ans) ==
  IF o = "resp" THEN Answer(ans.status, ans.body)
  ELSE IF o = "http500" THEN Answer(StatusInternalServerError, "internal error")
  ELSE IF o = "badjson" THEN Answer(StatusOK, "not json")
  ELSE IF o \in OtherSuccess
    THEN IF ans.status >= 200 /\ ans.status <= 299
           THEN Answer(OutcomeStatus(o), ans.body)
           ELSE Answer(ans.status, ans.body)
  ELSE NoAnswer

\* the values of the records of domain d that a list of these lines shows
ValuesOf(lines, d) ==
  LET recs == SelectSeq(ParseRecords(kind, lines), LAMBDA r : r.Domain = d)
  IN  [i \in 1..Len(recs) |-> recs[i].Value]

\* CreateDNSRecord / UpdateDNSRecord / DeleteDNSRecord (and the CNAME twins)
\* are entered by the caller
StartCall(name, d, v) ==
  /\ pc = "idle"
  /\ call' = [name |-> name, domain |-> d, value |-> v, preVals |-> ValuesOf(store[kind], d)]
  /\ stack' = IF name = "Update"
                THEN <<Frame("Update", "del"), Frame("Delete", "")>>
                ELSE <<Frame(name, "")>>
  /\ pc' = "list"
  /\ attempt' = 0
  /\ target' = <<>>
  /\ log' = <<>>
  /\ answers' = <<>>
  /\ faulty' = FALSE
  /\ UNCHANGED <<store, kind, config, hist, histDepth, faults, lastOp, fromEmpty>>

\* mutant: a record of the domain is never taken as already present
CreateBranch_AlwaysPut(records, domain, value) ==
  LET i == FindRecord(records, domain) IN
  IF i # 0 /\ records[i].Value # value THEN "update" ELSE "put"

\* mutant: a record with another value is not replaced, the new one is added
CreateBranch_NoUpdate(records, domain, value) ==
  LET i == FindRecord(records, domain) IN
  IF i # 0 /\ records[i].Value = value THEN "exists" ELSE "put"

\* the record loop of CreateDNSRecord / CreateCNAMERecord: delegate to Update
\* when the first record of the domain holds another value, do nothing when
\* it holds this value, PUT when the domain has no record
CreateBranch(records, domain, value) ==
  LET i == FindRecord(records, domain) IN
  IF i # 0
    THEN IF records[i].Value # value THEN "update" ELSE "exists"
    ELSE "put"

\* mutant: the record to delete is the first record listed
DeleteBranch_FirstListed(records, domain) ==
  IF records = <<>> THEN [found |-> FALSE, value |-> <<>>]
  ELSE [found |-> TRUE,
        value |-> RecordValue(kind, records[1].Domain, records[1].Value)]

\* mutant: the DELETE addresses the record by its domain alone
DeleteBranch_ByDomain(records, domain) ==
  LET i == FindRecord(records, domain) IN
  IF i = 0 THEN [found |-> FALSE, value |-> <<>>]
           ELSE [found |-> TRUE, value |-> domain]

\* mutant: no check that a record of the domain was found
DeleteBranch_NoNilCheck(records, domain) ==
  LET i == FindRecord(records, domain) IN
  IF i = 0 THEN [found |-> TRUE, value |-> RecordValue(kind, domain, <<>>)]
           ELSE [found |-> TRUE,
                 value |-> RecordValue(kind, records[i].Domain, records[i].Value)]

\* the record loop of DeleteDNSRecord / DeleteCNAMERecord: the record to
\* delete is the first record of the domain
DeleteBranch(records, domain) ==
  LET i == FindRecord(records, domain) IN
  IF i = 0 THEN [found |-> FALSE, value |-> <<>>]
           ELSE [found |-> TRUE,
                 value |-> RecordValue(kind, records[i].Domain, records[i].Value)]

\* mutant: the status of the list is not looked at
ListOk_Always(status) == status = status

\* the status that GetDNSRecords / GetCNAMERecords accept
ListOk(status) == status = StatusOK

\* json.Unmarshal(body, &apiResp) returns no error
Decodes(body) == body # "not json"

\* one attempt of the GET of GetDNSRecords / GetCNAMERecords and, when it is
\* answered, the code of Create... / Delete... up to its next request
ListAttempt(o) ==
  /\ pc = "list"
  /\ LET top == stack[Len(stack)]
         newlog == Append(log, Request("GET", <<>>))
         ans == Serve(store[kind], Request("GET", <<>>))
         met == Met(o, ans)
         newans == Append(answers, met)
         nowfaulty == faulty \/ o # "resp"
         records == ParseRecords(kind, ans.lines)
         cb == CreateBranch(records, call.domain, call.value)
         db == DeleteBranch(records, call.domain)
     IN
     /\ faults' = IF o = "resp" THEN faults ELSE faults - 1
     /\ IF ~Reaches(o) /\ o # "http500"
          THEN IF isRetryableError(OutcomeErr(o)) /\ attempt < config.RetryAttempts
                 THEN /\ attempt' = attempt + 1
                      /\ log' = newlog
                      /\ answers' = newans
                      /\ faulty' = TRUE
                      /\ UNCHANGED <<call, stack, pc, target, hist, lastOp>>
                 ELSE /\ Return(TransportErr, newlog, newans, TRUE)
                      /\ attempt' = 0
                      /\ target' = <<>>
        ELSE IF ~ListOk(met.status)
          THEN /\ Return(Err(met.status, met.body), newlog, newans, TRUE)
               /\ attempt' = 0
               /\ target' = <<>>
        ELSE IF ~Decodes(met.body)
          THEN /\ Return(Err(0, met.body), newlog, newans, TRUE)
               /\ attempt' = 0
               /\ target' = <<>>
        ELSE IF top.fn = "List"
          THEN \* GetDNSRecords called on its own: return records, nil
               /\ Return(Ok, newlog, newans, nowfaulty)
               /\ attempt' = 0
               /\ target' = <<>>
        ELSE IF top.fn = "Create"
          THEN IF cb = "update"
                 THEN \* return c.UpdateDNSRecord(domain, ip), which calls Delete
                      /\ stack' = stack \o <<Frame("Update", "del"), Frame("Delete", "")>>
                      /\ log' = newlog
                      /\ answers' = newans
                      /\ faulty' = nowfaulty
                      /\ attempt' = 0
                      /\ UNCHANGED <<call, pc, target, hist, lastOp>>
               ELSE IF cb = "exists"
                 THEN /\ Return(Ok, newlog, newans, nowfaulty)
                      /\ attempt' = 0
                      /\ target' = <<>>
               ELSE /\ pc' = "mutate"
                    /\ target' = RecordValue(kind, call.domain, call.value)
                    /\ log' = newlog
                    /\ answers' = newans
                    /\ faulty' = nowfaulty
                    /\ attempt' = 0
                    /\ UNCHANGED <<call, stack, hist, lastOp>>
        ELSE \* Delete
             IF ~db.found
               THEN /\ Return(Ok, newlog, newans, nowfaulty)
                    /\ attempt' = 0
                    /\ target' = <<>>
               ELSE /\ pc' = "mutate"
                    /\ target' = db.value
                    /\ log' = newlog
                    /\ answers' = newans
                    /\ faulty' = nowfaulty
                    /\ attempt' = 0
                    /\ UNCHANGED <<call, stack, hist, lastOp>>
  /\ UNCHANGED <<store, kind, config, histDepth, fromEmpty>>

\* mutant: the status of the PUT is not looked at
PutOk_Always(status) == status = status

\* mutant: every 2xx status counts as success of the PUT
PutOk_Any2xx(status) == status >= 200 /\ status <= 299

\* the success statuses of the PUT and of the DELETE
PutOk(status) == status = StatusOK \/ status = StatusCreated
DeleteOk(status) == status = StatusOK \/ status = StatusNoContent

\* one attempt of the PUT of Create... or of the DELETE of Delete...
MutateAttempt(o) ==
  /\ pc = "mutate"
  /\ LET top == stack[Len(stack)]
         req == Request(IF top.fn = "Create" THEN "PUT" ELSE "DELETE",
                        PathEscape(target))
         newlog == Append(log, req)
         ans == Serve(store[kind], req)
         met == Met(o, ans)
         newans == Append(answers, met)
         nowfaulty == faulty \/ o # "resp"
         good == IF top.fn = "Create" THEN PutOk(met.status) ELSE DeleteOk(met.status)
     IN
     /\ faults' = IF o = "resp" THEN faults ELSE faults - 1
     /\ store' = IF Reaches(o) THEN [store EXCEPT ![kind] = ans.lines] ELSE store
     /\ IF ~Reaches(o) /\ o # "http500"
          THEN IF isRetryableError(OutcomeErr(o)) /\ attempt < config.RetryAttempts
                 THEN /\ attempt' = attempt + 1
                      /\ log' = newlog
                      /\ answers' = newans
                      /\ faulty' = TRUE
                      /\ UNCHANGED <<call, stack, pc, target, hist, lastOp>>
                 ELSE /\ Return(TransportErr, newlog, newans, TRUE)
                      /\ attempt' = 0
                      /\ target' = <<>>
          ELSE /\ Return(IF good THEN Ok ELSE Err(met.status, met.body),
                         newlog, newans, nowfaulty)
               /\ attempt' = 0
               /\ target' = <<>>
  /\ UNCHANGED <<kind, config, histDepth, fromEmpty>>

\* lists of at most n lines
RECURSIVE ListsUpTo(_, _)
ListsUpTo(S, n) ==
  IF n = 0 THEN {<<>>}
  ELSE LET shorter == ListsUpTo(S, n - 1)
       IN  shorter \cup {Append(l, x) : l \in {m \in shorter : Len(m) = n - 1}, x \in S}

\* the lines an appliance may hold: records of the domains, and a malformed line
Lines(k) == {RecordValue(k, d, v) : d \in Domains, v \in Values} \cup {Garbage}

NoDuplicateLine(lines) ==
  \A i, j \in 1..Len(lines) : lines[i] = lines[j] => i = j

\* the defaults that PiholeProvider.Configure sets
DefaultConfig == [RetryAttempts |-> 3, RetryBackoffMs |-> 500]

InitRecWith(budget, configs, depth) ==
  /\ kind \in Kinds
  /\ \E l \in {m \in ListsUpTo(Lines(kind), MaxInitRecords) : NoDuplicateLine(m)} :
       /\ store = [k \in Kinds |-> IF k = kind THEN l ELSE <<>>]
       /\ fromEmpty = (l = <<>>)
  /\ config \in configs
  /\ call = NoCall
  /\ stack = <<>>
  /\ pc = "idle"
  /\ target = <<>>
  /\ attempt = 0
  /\ log = <<>>
  /\ answers = <<>>
  /\ faulty = FALSE
  /\ hist = <<>>
  /\ histDepth = depth
  /\ faults = budget
  /\ lastOp = [d \in Domains |-> <<"none">>]
  /\ RetryIdle
  /\ CacheIdle
  /\ SessIdle
  /\ CfgIdle
  /\ FnIdle
  /\ StaleIdle
  /\ ResIdle
  /\ UpIdle

\* the appliance answers every request
InitRec == InitRecWith(0, {DefaultConfig}, 2)

\* the environment may fail up to MaxFaults attempts
InitRecFault ==
  InitRecWith(MaxFaults, {[DefaultConfig EXCEPT !.RetryAttempts = r] :
                            r \in 0..MaxRetryAttempts}, 1)

NextRec ==
  \/ \E d \in Domains, v \in Values :
       StartCall("Create", d, v) /\ UNCHANGED <<retryVars, cacheVars, sessVars, cfgVars, fnVars, staleVars, resVars, upVars>>
  \/ \E d \in Domains, v \in Values :
       StartCall("Update", d, v) /\ UNCHANGED <<retryVars, cacheVars, sessVars, cfgVars, fnVars, staleVars, resVars, upVars>>
  \/ \E d \in Domains : StartCall("Delete", d, <<>>) /\ UNCHANGED <<retryVars, cacheVars, sessVars, cfgVars, fnVars, staleVars, resVars, upVars>>
  \/ \E o \in ListOutcomes : ListAttempt(o) /\ UNCHANGED <<retryVars, cacheVars, sessVars, cfgVars, fnVars, staleVars, resVars, upVars>>
  \/ \E o \in Outcomes : MutateAttempt(o) /\ UNCHANGED <<retryVars, cacheVars, sessVars, cfgVars, fnVars, staleVars, resVars, upVars>>

SpecRec == InitRec /\ [][NextRec]_vars

SpecRecFault == InitRecFault /\ [][NextRec]_vars

\* ------------------------------------------------------------------------
\* The retry loops: makeRequestWithRetry and authenticateWithRetry
\* ------------------------------------------------------------------------
MaxRetries == 3
\* RetryAttempts is an unvalidated integer of the provider configuration
RetryChoices == (0 - 1)..MaxRetries
BackoffChoices == {50, 500}

\* what one attempt meets: a transport error, or a response; the response to
\* an authentication request has a body that cannot be read, is not JSON, or
\* holds a session that is valid or not
TransportOutcomes == {[type |-> "err", err |-> e] : e \in TransportErrors}
\* the bodies an answer may carry, and the sessions a valid answer may grant
Bodies == {"json", "text"}
Sessions == {[sid |-> "s1", csrf |-> "c1"], [sid |-> "s2", csrf |-> "c2"]}
RequestOutcomes ==
  TransportOutcomes
  \cup {[type |-> "resp", status |-> st, body |-> b] :
          st \in {StatusOK, StatusUnauthorized, StatusNotFound,
                  StatusInternalServerError},
          b \in Bodies}
AuthOutcomes ==
  TransportOutcomes
  \cup {[type |-> "resp", status |-> StatusOK, body |-> "valid",
         sid |-> x.sid, csrf |-> x.csrf] : x \in Sessions}
  \cup {[type |-> "resp", status |-> StatusOK, body |-> b] :
          b \in {"invalid", "notjson", "unreadable"}}
  \cup {[type |-> "resp", status |-> st, body |-> b] :
          st \in {StatusUnauthorized, StatusTooManyRequests, StatusNotFound,
                  StatusInternalServerError},
          b \in Bodies}

\* mutant: the delay grows with the attempt, not with its square
BackoffDelay_Linear(n, backoffMs) == n * backoffMs

\* time.Duration(attempt*attempt) * time.Duration(RetryBackoffMs) * time.Millisecond, in ms
BackoffDelay(n, backoffMs) == n * n * backoffMs

\* the sleep at the head of the loop body
SleepBefore(n, backoffMs) ==
  IF n > 0 THEN <<BackoffDelay(n, backoffMs)>> ELSE <<>>

\* mutant: a server error is retried like a retryable transport error
RequestDecision_RetryServerError(o, n, retries) ==
  IF o.type = "err"
    THEN IF isRetryableError(o.err) /\ n < retries THEN "continue" ELSE "return err"
  ELSE IF o.status >= StatusInternalServerError /\ n < retries THEN "continue"
  ELSE "return resp"

\* what the body of makeRequestWithRetry's loop does with the outcome of
\* c.HTTPClient.Do: "continue", "return err" or "return resp"
RequestDecision(o, n, retries) ==
  IF o.type = "err"
    THEN IF isRetryableError(o.err) /\ n < retries THEN "continue" ELSE "return err"
    ELSE "return resp"

\* mutant: a rate-limit answer is retried like any other status
AuthStatusFinal_Only401(status) == status = StatusUnauthorized

\* authenticateWithRetry does not retry these statuses
AuthStatusFinal(status) ==
  status = StatusUnauthorized \/ status = StatusTooManyRequests

\* what the body of authenticateWithRetry's loop does with the outcome
AuthDecision(o, n, retries) ==
  IF o.type = "err"
    THEN IF isRetryableError(o.err) /\ n < retries THEN "continue" ELSE "return err"
  ELSE IF o.body = "unreadable"
    THEN IF n < retries THEN "continue" ELSE "return err"
  ELSE IF o.status # StatusOK
    THEN IF AuthStatusFinal(o.status) THEN "return err"
         ELSE IF n < retries THEN "continue" ELSE "return err"
  ELSE IF o.body = "notjson"
    THEN IF n < retries THEN "continue" ELSE "return err"
  ELSE IF o.body = "invalid"
    THEN "return err"
  ELSE "return nil"

\* mutant: the two tokens of the answer are stored crosswise
SessionOf_Swapped(o) == [SessionID |-> o.csrf, CSRFToken |-> o.sid]

\* c.SessionID = authResp.Session.Sid; c.CSRFToken = authResp.Session.CSRF
SessionOf(o) == [SessionID |-> o.sid, CSRFToken |-> o.csrf]

\* the caller enters makeRequestWithRetry(method, endpoint, body, retries)
\* or, on a new client, authenticateWithRetry(retries)
RetryCall(fn, retries, backoffMs) ==
  /\ rpc = "idle"
  /\ rcall' = [fn |-> fn, retries |-> retries, backoffMs |-> backoffMs]
  /\ rpc' = "running"
  /\ rattempt' = 0
  /\ lastErr' = NoErr
  /\ sent' = <<>>
  /\ sleeps' = <<>>
  /\ rresult' = NoResult
  /\ session' = IF fn = "authenticateWithRetry"
                  THEN NoSession
                  ELSE [SessionID |-> "sid", CSRFToken |-> "csrf"]

\* mutant: loop bound and budget test are both off by one
RequestAttempt_OffByOne(o) ==
  /\ rpc = "running"
  /\ rcall.fn = "makeRequestWithRetry"
  /\ rattempt <= rcall.retries + 1
  /\ sleeps' = sleeps \o SleepBefore(rattempt, rcall.backoffMs)
  /\ sent' = Append(sent, o)
  /\ LET dec == RequestDecision(o, rattempt, rcall.retries + 1)
         e == [attempt |-> rattempt, what |-> o]
     IN
     /\ lastErr' = IF o.type = "err" THEN e ELSE lastErr
     /\ IF dec = "continue"
          THEN /\ rattempt' = rattempt + 1
               /\ UNCHANGED <<rpc, rresult>>
          ELSE /\ rpc' = "returned"
               /\ rresult' = IF dec = "return err"
                               THEN [kind |-> "err", cause |-> e]
                               ELSE [kind |-> "resp", status |-> o.status,
                                     body |-> o.body]
               /\ UNCHANGED rattempt
  /\ UNCHANGED <<rcall, session>>

\* one pass of the body of makeRequestWithRetry's loop
RequestAttempt(o) ==
  /\ rpc = "running"
  /\ rcall.fn = "makeRequestWithRetry"
  /\ rattempt <= rcall.retries
  /\ sleeps' = sleeps \o SleepBefore(rattempt, rcall.backoffMs)
  /\ sent' = Append(sent, o)
  /\ LET dec == RequestDecision(o, rattempt, rcall.retries)
         e == [attempt |-> rattempt, what |-> o]
     IN
     /\ lastErr' = IF o.type = "err" THEN e ELSE lastErr
     /\ IF dec = "continue"
          THEN /\ rattempt' = rattempt + 1
               /\ UNCHANGED <<rpc, rresult>>
          ELSE /\ rpc' = "returned"
               /\ rresult' = IF dec = "return err"
                               THEN [kind |-> "err", cause |-> e]
                               ELSE [kind |-> "resp", status |-> o.status,
                                     body |-> o.body]
               /\ UNCHANGED rattempt
  /\ UNCHANGED <<rcall, session>>

\* one pass of the body of authenticateWithRetry's loop
AuthAttempt(o) ==
  /\ rpc = "running"
  /\ rcall.fn = "authenticateWithRetry"
  /\ rattempt <= rcall.retries
  /\ sleeps' = sleeps \o SleepBefore(rattempt, rcall.backoffMs)
  /\ sent' = Append(sent, o)
  /\ LET dec == AuthDecision(o, rattempt, rcall.retries)
         e == [attempt |-> rattempt, what |-> o]
     IN
     /\ lastErr' = IF dec = "return nil" THEN lastErr ELSE e
     /\ IF dec = "continue"
          THEN /\ rattempt' = rattempt + 1
               /\ UNCHANGED <<rpc, rresult, session>>
          ELSE /\ rpc' = "returned"
               /\ UNCHANGED rattempt
               /\ IF dec = "return err"
                    THEN /\ rresult' = [kind |-> "err", cause |-> e]
                         /\ UNCHANGED session
                    ELSE /\ rresult' = [kind |-> "nil"]
                         /\ session' = SessionOf(o)
  /\ UNCHANGED rcall

\* the statement after the loop: reached when the loop condition fails
LoopExit ==
  /\ rpc = "running"
  /\ rattempt > rcall.retries
  /\ rpc' = "returned"
  /\ rresult' = [kind |-> "err", cause |-> lastErr]
  /\ UNCHANGED <<rcall, rattempt, lastErr, sent, sleeps, session>>

\* the caller takes the result
RetryDone ==
  /\ rpc = "returned"
  /\ rpc' = "idle"
  /\ rcall' = NoRCall
  /\ rattempt' = 0
  /\ lastErr' = NoErr
  /\ sent' = <<>>
  /\ sleeps' = <<>>
  /\ rresult' = NoResult
  /\ session' = NoSession

\* the record client at rest
RecIdle ==
  /\ store = [k \in Kinds |-> <<>>]
  /\ kind = "hosts"
  /\ config = DefaultConfig
  /\ call = NoCall
  /\ stack = <<>>
  /\ pc = "idle"
  /\ target = <<>>
  /\ attempt = 0
  /\ log = <<>>
  /\ answers = <<>>
  /\ faulty = FALSE
  /\ hist = <<>>
  /\ histDepth = 0
  /\ faults = 0
  /\ lastOp = [d \in Domains |-> <<"none">>]
  /\ fromEmpty = TRUE

InitRetry == RetryIdle /\ RecIdle /\ CacheIdle /\ SessIdle /\ CfgIdle /\ FnIdle /\ StaleIdle /\ ResIdle /\ UpIdle

NextRetry ==
  \/ \E fn \in {"makeRequestWithRetry", "authenticateWithRetry"},
       r \in RetryChoices, b \in BackoffChoices :
       RetryCall(fn, r, b) /\ UNCHANGED <<recVars, cacheVars, sessVars, cfgVars, fnVars, staleVars, resVars, upVars>>
  \/ \E o \in RequestOutcomes : RequestAttempt(o) /\ UNCHANGED <<recVars, cacheVars, sessVars, cfgVars, fnVars, staleVars, resVars, upVars>>
  \/ \E o \in AuthOutcomes : AuthAttempt(o) /\ UNCHANGED <<recVars, cacheVars, sessVars, cfgVars, fnVars, staleVars, resVars, upVars>>
  \/ LoopExit /\ UNCHANGED <<recVars, cacheVars, sessVars, cfgVars, fnVars, staleVars, resVars, upVars>>
  \/ RetryDone /\ UNCHANGED <<recVars, cacheVars, sessVars, cfgVars, fnVars, staleVars, resVars, upVars>>

SpecRetry == InitRetry /\ [][NextRetry]_vars

\* ------------------------------------------------------------------------
\* The client cache: getOrCreateClient and clearClientCache
\* ------------------------------------------------------------------------
MaxClears == 1
MaxAuthFailures == 1

\* cacheKey := url + "|" + password
CacheKey(url, password) == url \o <<"|">> \o password

\* client, exists := clientCache[cacheKey]
Cached(cache, key) == key \in DOMAIN cache

\* mutant: the second lookup, under the write lock, is left out
CachedOnRecheck_Never(cache, key) == FALSE

\* the double check under the write lock
CachedOnRecheck(cache, key) == Cached(cache, key)

\* clientCache[cacheKey] = client
MapPut(cache, key, c) ==
  [k \in DOMAIN cache \cup {key} |-> IF k = key THEN c ELSE cache[k]]

\* mutant: the write lock is granted whoever holds the mutex
CanLock_Always == TRUE

\* sync.RWMutex: a read lock needs no writer, the write lock nobody
CanRLock == cacheMutex.writer = "none"
CanLock == cacheMutex.writer = "none" /\ cacheMutex.readers = {}

KeyOf(p) == CacheKey(creq[p].url, creq[p].password)
PairOf(p) == [url |-> creq[p].url, password |-> creq[p].password]

\* a caller enters getOrCreateClient(url, password, config)
GetOrCreateCall(p, url, password, cfg) ==
  /\ cpc[p] = "idle"
  /\ creq' = [creq EXCEPT ![p] = [op |-> "getOrCreateClient", url |-> url,
                                  password |-> password, config |-> cfg]]
  /\ cpc' = [cpc EXCEPT ![p] = "rlock"]
  /\ cret' = [cret EXCEPT ![p] = NoRet]
  /\ presented' = presented \cup {[url |-> url, password |-> password]}
  /\ UNCHANGED <<clientCache, cacheMutex, clients, clears, authBudget,
                 given, authRuns, authOks>>

\* cacheMutex.RLock()
RLock(p) ==
  /\ cpc[p] = "rlock"
  /\ CanRLock
  /\ cacheMutex' = [cacheMutex EXCEPT !.readers = @ \cup {p}]
  /\ cpc' = [cpc EXCEPT ![p] = "rcheck"]
  /\ UNCHANGED <<clientCache, clients, creq, cret, clears, authBudget,
                 presented, given, authRuns, authOks>>

\* the lookup under the read lock, and RUnlock
RCheck(p) ==
  /\ cpc[p] = "rcheck"
  /\ cacheMutex' = [cacheMutex EXCEPT !.readers = @ \ {p}]
  /\ IF Cached(clientCache, KeyOf(p))
       THEN /\ cret' = [cret EXCEPT ![p] =
                          [client |-> clientCache[KeyOf(p)], via |-> "read hit"]]
            /\ given' = [given EXCEPT ![PairOf(p)] = @ \cup {clientCache[KeyOf(p)]}]
            /\ cpc' = [cpc EXCEPT ![p] = "idle"]
            /\ creq' = [creq EXCEPT ![p] = NoReq]
       ELSE /\ cpc' = [cpc EXCEPT ![p] = "lock"]
            /\ UNCHANGED <<cret, given, creq>>
  /\ UNCHANGED <<clientCache, clients, clears, authBudget, presented,
                 authRuns, authOks>>

\* cacheMutex.Lock()
Lock(p) ==
  /\ cpc[p] = "lock"
  /\ CanLock
  /\ cacheMutex' = [cacheMutex EXCEPT !.writer = p]
  /\ cpc' = [cpc EXCEPT ![p] = "recheck"]
  /\ UNCHANGED <<clientCache, clients, creq, cret, clears, authBudget,
                 presented, given, authRuns, authOks>>

\* the double check under the write lock; on a miss NewPiholeClient starts
Recheck(p) ==
  /\ cpc[p] = "recheck"
  /\ IF CachedOnRecheck(clientCache, KeyOf(p))
       THEN /\ cret' = [cret EXCEPT ![p] =
                          [client |-> clientCache[KeyOf(p)], via |-> "write hit"]]
            /\ given' = [given EXCEPT ![PairOf(p)] = @ \cup {clientCache[KeyOf(p)]}]
            /\ cpc' = [cpc EXCEPT ![p] = "idle"]
            /\ cacheMutex' = [cacheMutex EXCEPT !.writer = "none"]
            /\ creq' = [creq EXCEPT ![p] = NoReq]
            /\ UNCHANGED authRuns
       ELSE /\ cpc' = [cpc EXCEPT ![p] = "auth"]
            /\ authRuns' = authRuns + 1
            /\ UNCHANGED <<cret, given, cacheMutex, creq>>
  /\ UNCHANGED <<clientCache, clients, clears, authBudget, presented,
                 authOks>>

\* mutant: the client is cached whether or not NewPiholeClient returned an error
CacheAfterNew_Always(cache, key, c, ok) == MapPut(cache, key, c)

\* if err != nil { return nil, err }; clientCache[cacheKey] = client
CacheAfterNew(cache, key, c, ok) == IF ok THEN MapPut(cache, key, c) ELSE cache

\* NewPiholeClient returns: the authenticated client is cached and returned,
\* or the error is returned; the deferred Unlock runs
NewClientReturns(p, ok) ==
  /\ cpc[p] = "auth"
  /\ cacheMutex' = [cacheMutex EXCEPT !.writer = "none"]
  /\ cpc' = [cpc EXCEPT ![p] = "idle"]
  /\ IF ok
       THEN LET c == Len(clients) + 1 IN
            /\ clients' = Append(clients,
                            [BaseURL |-> creq[p].url, Password |-> creq[p].password,
                             Config |-> creq[p].config,
                             SessionID |-> "sid", CSRFToken |-> "csrf"])
            /\ clientCache' = CacheAfterNew(clientCache, KeyOf(p), c, ok)
            /\ cret' = [cret EXCEPT ![p] = [client |-> c, via |-> "new"]]
            /\ given' = [given EXCEPT ![PairOf(p)] = @ \cup {c}]
            /\ authOks' = authOks + 1
            /\ UNCHANGED authBudget
       ELSE /\ authBudget > 0
            /\ authBudget' = authBudget - 1
            /\ cret' = [cret EXCEPT ![p] = [client |-> 0, via |-> "error"]]
            /\ clientCache' = CacheAfterNew(clientCache, KeyOf(p), 0, ok)
            /\ UNCHANGED <<clients, given, authOks>>
  /\ creq' = [creq EXCEPT ![p] = NoReq]
  /\ UNCHANGED <<clears, presented, authRuns>>

\* a caller enters clearClientCache()
ClearCall(p) ==
  /\ cpc[p] = "idle"
  /\ clears < MaxClears
  /\ clears' = clears + 1
  /\ creq' = [creq EXCEPT ![p] = [op |-> "clearClientCache"]]
  /\ cpc' = [cpc EXCEPT ![p] = "clear lock"]
  /\ cret' = [cret EXCEPT ![p] = NoRet]
  /\ UNCHANGED <<clientCache, cacheMutex, clients, authBudget, presented,
                 given, authRuns, authOks>>

\* mutant: Close leaves the tokens in place
Close_Keep(c) == c

\* PiholeClient.Close
Close(c) == [c EXCEPT !.SessionID = "", !.CSRFToken = ""]

\* clearClientCache: Lock, Close every cached client, a new map, Unlock
ClearCache(p) ==
  /\ cpc[p] = "clear lock"
  /\ CanLock
  /\ clients' = [c \in 1..Len(clients) |->
                   IF \E k \in DOMAIN clientCache : clientCache[k] = c
                     THEN Close(clients[c]) ELSE clients[c]]
  /\ clientCache' = EmptyMap
  /\ cpc' = [cpc EXCEPT ![p] = "idle"]
  /\ UNCHANGED cret
  /\ presented' = {PairOf(q) : q \in {r \in Procs : creq[r].op = "getOrCreateClient"}}
  /\ given' = [a \in Pairs |-> {}]
  /\ authRuns' = 0
  /\ authOks' = 0
  /\ creq' = [creq EXCEPT ![p] = NoReq]
  /\ UNCHANGED <<cacheMutex, clears, authBudget>>

InitCache ==
  /\ RecIdle
  /\ RetryIdle
  /\ SessIdle
  /\ CfgIdle
  /\ FnIdle
  /\ StaleIdle
  /\ ResIdle
  /\ UpIdle
  /\ clientCache = EmptyMap
  /\ cacheMutex = [readers |-> {}, writer |-> "none"]
  /\ clients = <<>>
  /\ cpc = [p \in Procs |-> "idle"]
  /\ creq = [p \in Procs |-> NoReq]
  /\ cret = [p \in Procs |-> NoRet]
  /\ clears = 0
  /\ authBudget = MaxAuthFailures
  /\ presented = {}
  /\ given = [a \in Pairs |-> {}]
  /\ authRuns = 0
  /\ authOks = 0

NextCache ==
  \/ \E p \in Procs, a \in Pairs :
       GetOrCreateCall(p, a.url, a.password, DefaultConfig)
         /\ UNCHANGED <<recVars, retryVars, sessVars, cfgVars, fnVars, staleVars, resVars, upVars>>
  \/ \E p \in Procs : RLock(p) /\ UNCHANGED <<recVars, retryVars, sessVars, cfgVars, fnVars, staleVars, resVars, upVars>>
  \/ \E p \in Procs : RCheck(p) /\ UNCHANGED <<recVars, retryVars, sessVars, cfgVars, fnVars, staleVars, resVars, upVars>>
  \/ \E p \in Procs : Lock(p) /\ UNCHANGED <<recVars, retryVars, sessVars, cfgVars, fnVars, staleVars, resVars, upVars>>
  \/ \E p \in Procs : Recheck(p) /\ UNCHANGED <<recVars, retryVars, sessVars, cfgVars, fnVars, staleVars, resVars, upVars>>
  \/ \E p \in Procs, ok \in BOOLEAN :
       NewClientReturns(p, ok) /\ UNCHANGED <<recVars, retryVars, sessVars, cfgVars, fnVars, staleVars, resVars, upVars>>
  \/ \E p \in Procs : ClearCall(p) /\ UNCHANGED <<recVars, retryVars, sessVars, cfgVars, fnVars, staleVars, resVars, upVars>>
  \/ \E p \in Procs : ClearCache(p) /\ UNCHANGED <<recVars, retryVars, sessVars, cfgVars, fnVars, staleVars, resVars, upVars>>

SpecCache == InitCache /\ [][NextCache]_vars

\* ------------------------------------------------------------------------
\* Callers using the client they hold, next to the cache
\* ------------------------------------------------------------------------
\* the operations that go through makeRequest
Operations ==
  {[op |-> "GetDNSRecords", method |-> "GET", endpoint |-> "/api/config/dns/hosts"],
   [op |-> "CreateDNSRecord", method |-> "PUT", endpoint |-> "/api/config/dns/hosts"],
   [op |-> "DeleteDNSRecord", method |-> "DELETE", endpoint |-> "/api/config/dns/hosts"],
   [op |-> "GetConfig", method |-> "GET", endpoint |-> "/api/config/webserver"],
   [op |-> "SetWebserverConfig", method |-> "PUT", endpoint |-> "/api/config/webserver"]}

\* the pair and the configuration the callers configure their provider with
SessionPair == [url |-> <<"http://h">>, password |-> <<"y">>]
SessionConfig == [DefaultConfig EXCEPT !.RetryAttempts = 1]

\* what the transport does with a request of a held client
SessionOutcomes ==
  {[type |-> "err", err |-> ErrRefused],
   [type |-> "resp", status |-> StatusOK, body |-> "json"]}

\* the client a caller holds: the one its getOrCreateClient returned
Held(p) == cret[p].client

\* a caller enters makeRequest on the client it holds
MakeRequestCall(p, operation) ==
  /\ cpc[p] = "idle"
  /\ qpc[p] = "idle"
  /\ Held(p) # 0
  /\ qreq' = [qreq EXCEPT ![p] = [op |-> operation.op, client |-> Held(p), attempt |-> 0]]
  /\ qhdr' = [qhdr EXCEPT ![p] = {}]
  /\ qpc' = [qpc EXCEPT ![p] = "sid"]
  /\ UNCHANGED lastSent

\* if c.SessionID != "" { req.Header.Set("X-FTL-SID", c.SessionID) }
ReadSessionID(p) ==
  /\ qpc[p] = "sid"
  /\ LET c == clients[qreq[p].client] IN
     qhdr' = [qhdr EXCEPT ![p] =
                IF c.SessionID # "" THEN @ \cup {<<"X-FTL-SID", c.SessionID>>} ELSE @]
  /\ qpc' = [qpc EXCEPT ![p] = "csrf"]
  /\ UNCHANGED <<qreq, lastSent>>

\* if c.CSRFToken != "" { req.Header.Set("X-FTL-CSRF", c.CSRFToken) }
ReadCSRFToken(p) ==
  /\ qpc[p] = "csrf"
  /\ LET c == clients[qreq[p].client] IN
     qhdr' = [qhdr EXCEPT ![p] =
                IF c.CSRFToken # "" THEN @ \cup {<<"X-FTL-CSRF", c.CSRFToken>>} ELSE @]
  /\ qpc' = [qpc EXCEPT ![p] = "do"]
  /\ UNCHANGED <<qreq, lastSent>>

\* c.HTTPClient.Do(req), and the rest of the loop body
Do(p, o) ==
  /\ qpc[p] = "do"
  /\ LET c == clients[qreq[p].client]
         dec == RequestDecision(o, qreq[p].attempt, c.Config.RetryAttempts)
     IN
     /\ lastSent' = [op |-> qreq[p].op, client |-> qreq[p].client,
                      attempt |-> qreq[p].attempt, headers |-> qhdr[p],
                      SessionID |-> c.SessionID]
     /\ IF dec = "continue"
          THEN /\ qreq' = [qreq EXCEPT ![p].attempt = @ + 1]
               /\ qpc' = [qpc EXCEPT ![p] = "sid"]
          ELSE /\ qreq' = [qreq EXCEPT ![p] = NoQReq]
               /\ qpc' = [qpc EXCEPT ![p] = "idle"]
     /\ qhdr' = [qhdr EXCEPT ![p] = {}]

InitSession ==
  /\ RecIdle
  /\ RetryIdle
  /\ CacheIdle
  /\ SessIdle
  /\ CfgIdle
  /\ FnIdle
  /\ StaleIdle
  /\ ResIdle
  /\ UpIdle

NextSession ==
  \/ \E p \in Procs :
       /\ qpc[p] = "idle"
       /\ GetOrCreateCall(p, SessionPair.url, SessionPair.password, SessionConfig)
       /\ UNCHANGED <<recVars, retryVars, sessVars, cfgVars, fnVars, staleVars, resVars, upVars>>
  \/ \E p \in Procs : RLock(p) /\ UNCHANGED <<recVars, retryVars, sessVars, cfgVars, fnVars, staleVars, resVars, upVars>>
  \/ \E p \in Procs : RCheck(p) /\ UNCHANGED <<recVars, retryVars, sessVars, cfgVars, fnVars, staleVars, resVars, upVars>>
  \/ \E p \in Procs : Lock(p) /\ UNCHANGED <<recVars, retryVars, sessVars, cfgVars, fnVars, staleVars, resVars, upVars>>
  \/ \E p \in Procs : Recheck(p) /\ UNCHANGED <<recVars, retryVars, sessVars, cfgVars, fnVars, staleVars, resVars, upVars>>
  \/ \E p \in Procs :
       NewClientReturns(p, TRUE) /\ UNCHANGED <<recVars, retryVars, sessVars, cfgVars, fnVars, staleVars, resVars, upVars>>
  \/ \E p \in Procs :
       /\ qpc[p] = "idle"
       /\ ClearCall(p)
       /\ UNCHANGED <<recVars, retryVars, sessVars, cfgVars, fnVars, staleVars, resVars, upVars>>
  \/ \E p \in Procs : ClearCache(p) /\ UNCHANGED <<recVars, retryVars, sessVars, cfgVars, fnVars, staleVars, resVars, upVars>>
  \/ \E p \in Procs, operation \in Operations :
       MakeRequestCall(p, operation) /\ UNCHANGED <<recVars, retryVars, cacheVars, cfgVars, fnVars, staleVars, resVars, upVars>>
  \/ \E p \in Procs : ReadSessionID(p) /\ UNCHANGED <<recVars, retryVars, cacheVars, cfgVars, fnVars, staleVars, resVars, upVars>>
  \/ \E p \in Procs : ReadCSRFToken(p) /\ UNCHANGED <<recVars, retryVars, cacheVars, cfgVars, fnVars, staleVars, resVars, upVars>>
  \/ \E p \in Procs, o \in SessionOutcomes :
       Do(p, o) /\ UNCHANGED <<recVars, retryVars, cacheVars, cfgVars, fnVars, staleVars, resVars, upVars>>

SpecSession == InitSession /\ [][NextSession]_vars

\* ------------------------------------------------------------------------
\* The record resources (pihole_dns_record, pihole_cname_record): Read,
\* next to another actor who changes the appliance
\* ------------------------------------------------------------------------
RecordState(domain, value) ==
  [present |-> TRUE, Domain |-> domain, Value |-> value, ID |-> domain]

\* mutant: a resource whose record is not listed stays in state
ReadState_Keep(records, data) ==
  LET i == FindRecord(records, data.Domain) IN
  IF i = 0 THEN data ELSE [data EXCEPT !.Value = records[i].Value]

\* Read: the loop over the listed records; the state it leaves
ReadState(records, data) ==
  LET i == FindRecord(records, data.Domain) IN
  IF i = 0 THEN [present |-> FALSE]
           ELSE [data EXCEPT !.Value = records[i].Value]

\* DNSRecordResource.Read / CNAMERecordResource.Read
RecordRead(o) ==
  /\ rstate.present
  /\ LET ans == Serve(store[kind], Request("GET", <<>>))
         met == Met(o, ans)
         ok == Reaches(o) /\ ListOk(met.status)
     IN  /\ rop' = [name |-> "Read", ok |-> ok, before |-> rstate, listed |-> store[kind],
                    prior |-> [name |-> rop.name,
                               line |-> IF rop.name \in {"OtherDelete", "OtherAdd"}
                                          THEN rop.line ELSE <<>>]]
         /\ rstate' = IF ok THEN ReadState(ParseRecords(kind, ans.lines), rstate)
                            ELSE rstate
  /\ UNCHANGED recVars

\* another actor removes a line from the appliance
OtherDelete(line) ==
  /\ HasLine(store[kind], line)
  /\ store' = [store EXCEPT ![kind] = SelectSeq(@, LAMBDA l : l # line)]
  /\ rop' = [name |-> "OtherDelete", line |-> line]
  /\ UNCHANGED <<rstate, kind, config, call, stack, pc, target, attempt, log, answers,
                 faulty, hist, histDepth, faults, lastOp, fromEmpty>>

\* another actor adds a line to the appliance
OtherAdd(line) ==
  /\ ~HasLine(store[kind], line)
  /\ Len(store[kind]) < MaxInitRecords
  /\ store' = [store EXCEPT ![kind] = Append(@, line)]
  /\ rop' = [name |-> "OtherAdd", line |-> line]
  /\ UNCHANGED <<rstate, kind, config, call, stack, pc, target, attempt, log, answers,
                 faulty, hist, histDepth, faults, lastOp, fromEmpty>>

\* a resource in state from an earlier apply, on an appliance with some lines
InitRecordResource ==
  /\ kind \in Kinds
  /\ \E l \in {m \in ListsUpTo(Lines(kind), MaxInitRecords) : NoDuplicateLine(m)} :
       store = [k \in Kinds |-> IF k = kind THEN l ELSE <<>>]
  /\ config = DefaultConfig
  /\ call = NoCall
  /\ stack = <<>>
  /\ pc = "idle"
  /\ target = <<>>
  /\ attempt = 0
  /\ log = <<>>
  /\ answers = <<>>
  /\ faulty = FALSE
  /\ hist = <<>>
  /\ histDepth = 0
  /\ faults = 0
  /\ lastOp = [d \in Domains |-> <<"none">>]
  /\ fromEmpty = TRUE
  /\ RetryIdle
  /\ CacheIdle
  /\ SessIdle
  /\ CfgIdle
  /\ FnIdle
  /\ StaleIdle
  /\ rstate \in {RecordState(d, v) : d \in Domains, v \in Values}
  /\ rop = [name |-> "none"]
  /\ UpIdle

NextRecordResource ==
  \/ \E o \in {"resp", "http500"} :
       RecordRead(o)
         /\ UNCHANGED <<retryVars, cacheVars, sessVars, cfgVars, fnVars, staleVars, upVars>>
  \/ \E line \in Lines(kind) :
       OtherDelete(line)
         /\ UNCHANGED <<retryVars, cacheVars, sessVars, cfgVars, fnVars, staleVars, upVars>>
  \/ \E line \in Lines(kind) :
       OtherAdd(line)
         /\ UNCHANGED <<retryVars, cacheVars, sessVars, cfgVars, fnVars, staleVars, upVars>>

SpecRecordResource == InitRecordResource /\ [][NextRecordResource]_vars

\* ------------------------------------------------------------------------
\* The cache with callers that pass different configurations
\* ------------------------------------------------------------------------
\* the configurations that Configure passes for one url and password
CacheConfigs == {DefaultConfig, [DefaultConfig EXCEPT !.RetryAttempts = 1]}

NextCacheConfig ==
  \/ \E p \in Procs, cfg \in CacheConfigs :
       GetOrCreateCall(p, SessionPair.url, SessionPair.password, cfg)
         /\ UNCHANGED <<recVars, retryVars, sessVars, cfgVars, fnVars, staleVars, resVars, upVars>>
  \/ \E p \in Procs : RLock(p) /\ UNCHANGED <<recVars, retryVars, sessVars, cfgVars, fnVars, staleVars, resVars, upVars>>
  \/ \E p \in Procs : RCheck(p) /\ UNCHANGED <<recVars, retryVars, sessVars, cfgVars, fnVars, staleVars, resVars, upVars>>
  \/ \E p \in Procs : Lock(p) /\ UNCHANGED <<recVars, retryVars, sessVars, cfgVars, fnVars, staleVars, resVars, upVars>>
  \/ \E p \in Procs : Recheck(p) /\ UNCHANGED <<recVars, retryVars, sessVars, cfgVars, fnVars, staleVars, resVars, upVars>>
  \/ \E p \in Procs, ok \in BOOLEAN :
       NewClientReturns(p, ok) /\ UNCHANGED <<recVars, retryVars, sessVars, cfgVars, fnVars, staleVars, resVars, upVars>>
  \/ \E p \in Procs : ClearCall(p) /\ UNCHANGED <<recVars, retryVars, sessVars, cfgVars, fnVars, staleVars, resVars, upVars>>
  \/ \E p \in Procs : ClearCache(p) /\ UNCHANGED <<recVars, retryVars, sessVars, cfgVars, fnVars, staleVars, resVars, upVars>>

SpecCacheConfig == InitCache /\ [][NextCacheConfig]_vars

\* ------------------------------------------------------------------------
\* The cache lock under fair scheduling, with getCacheSize
\* ------------------------------------------------------------------------
\* a caller enters getCacheSize()
SizeCall(p) ==
  /\ cpc[p] = "idle"
  /\ creq' = [creq EXCEPT ![p] = [op |-> "getCacheSize"]]
  /\ cpc' = [cpc EXCEPT ![p] = "size rlock"]
  /\ cret' = [cret EXCEPT ![p] = NoRet]
  /\ UNCHANGED <<clientCache, cacheMutex, clients, clears, authBudget,
                 presented, given, authRuns, authOks>>

\* getCacheSize: cacheMutex.RLock()
SizeRLock(p) ==
  /\ cpc[p] = "size rlock"
  /\ CanRLock
  /\ cacheMutex' = [cacheMutex EXCEPT !.readers = @ \cup {p}]
  /\ cpc' = [cpc EXCEPT ![p] = "size read"]
  /\ UNCHANGED <<clientCache, clients, creq, cret, clears, authBudget,
                 presented, given, authRuns, authOks>>

\* getCacheSize: return len(clientCache), and the deferred RUnlock
SizeReturn(p) ==
  /\ cpc[p] = "size read"
  /\ cacheMutex' = [cacheMutex EXCEPT !.readers = @ \ {p}]
  /\ cret' = [cret EXCEPT ![p] = [client |-> 0, via |-> "size",
                                  size |-> Cardinality(DOMAIN clientCache)]]
  /\ cpc' = [cpc EXCEPT ![p] = "idle"]
  /\ creq' = [creq EXCEPT ![p] = NoReq]
  /\ UNCHANGED <<clientCache, clients, clears, authBudget, presented, given,
                 authRuns, authOks>>

CacheOthers ==
  UNCHANGED <<recVars, retryVars, sessVars, cfgVars, fnVars, staleVars, resVars, upVars>>

NextCacheLive ==
  \/ \E p \in Procs :
       GetOrCreateCall(p, SessionPair.url, SessionPair.password, DefaultConfig)
         /\ CacheOthers
  \/ \E p \in Procs : RLock(p) /\ CacheOthers
  \/ \E p \in Procs : RCheck(p) /\ CacheOthers
  \/ \E p \in Procs : Lock(p) /\ CacheOthers
  \/ \E p \in Procs : Recheck(p) /\ CacheOthers
  \/ \E p \in Procs, ok \in BOOLEAN : NewClientReturns(p, ok) /\ CacheOthers
  \/ \E p \in Procs : ClearCall(p) /\ CacheOthers
  \/ \E p \in Procs : ClearCache(p) /\ CacheOthers
  \/ \E p \in Procs : SizeCall(p) /\ CacheOthers
  \/ \E p \in Procs : SizeRLock(p) /\ CacheOthers
  \/ \E p \in Procs : SizeReturn(p) /\ CacheOthers

\* A goroutine that can run does run, and NewPiholeClient returns (weak
\* fairness); a goroutine waiting for the mutex gets it when it is free again
\* and again: sync.RWMutex does not starve a waiter (strong fairness).
CacheFairness ==
  \A p \in Procs :
    /\ WF_vars(RCheck(p) /\ CacheOthers)
    /\ WF_vars(Recheck(p) /\ CacheOthers)
    /\ WF_vars(NewClientReturns(p, TRUE) /\ CacheOthers)
    /\ WF_vars(SizeReturn(p) /\ CacheOthers)
    /\ SF_vars(RLock(p) /\ CacheOthers)
    /\ SF_vars(Lock(p) /\ CacheOthers)
    /\ SF_vars(ClearCache(p) /\ CacheOthers)
    /\ SF_vars(SizeRLock(p) /\ CacheOthers)

SpecCacheLive == InitCache /\ [][NextCacheLive]_vars /\ CacheFairness

\* ------------------------------------------------------------------------
\* The record client next to a concurrent writer
\* ------------------------------------------------------------------------
\* another actor adds a line while an operation of the client is in progress
WriterAdds(line) ==
  /\ pc # "idle"
  /\ rop.name = "none"
  /\ OtherAdd(line)

InitRecWriter == InitRecWith(0, {DefaultConfig}, 1)

NextRecWriter ==
  \/ NextRec
  \/ \E line \in Lines(kind) :
       WriterAdds(line)
         /\ UNCHANGED <<retryVars, cacheVars, sessVars, cfgVars, fnVars, staleVars, upVars>>

SpecRecWriter == InitRecWriter /\ [][NextRecWriter]_vars

\* ------------------------------------------------------------------------
\* Two callers of CreateDNSRecord / CreateCNAMERecord on one client
\* ------------------------------------------------------------------------
\* Each request of a caller is one step; what the caller computes from the
\* answer up to its next request belongs to the same step. The client holds
\* no lock over a list and the request that follows it.
UpFrame == <<config, call, stack, pc, target, attempt, log, answers, faulty, hist,
             histDepth, faults, lastOp, fromEmpty, kind>>

\* a caller enters CreateDNSRecord(domain, value)
UpsertStart(p, d, v) ==
  /\ up[p].pc = "idle"
  /\ up' = [up EXCEPT ![p] = [NoUpsert EXCEPT !.pc = "create", !.domain = d,
                                               !.value = v]]
  /\ UNCHANGED <<store, UpFrame>>

\* the list of CreateDNSRecord and its record loop
UpsertList(p) ==
  /\ up[p].pc = "create"
  /\ LET records == ParseRecords(kind, store[kind])
         b == CreateBranch(records, up[p].domain, up[p].value) IN
       up' = [up EXCEPT ![p] =
                CASE b = "update" -> [@ EXCEPT !.pc = "delete"]
                  [] b = "exists" -> [@ EXCEPT !.pc = "done", !.result = "ok"]
                  [] OTHER -> [@ EXCEPT !.pc = "put"]]
  /\ UNCHANGED <<store, UpFrame>>

\* the PUT of CreateDNSRecord
UpsertPut(p) ==
  /\ up[p].pc = "put"
  /\ LET req == Request("PUT", PathEscape(RecordValue(kind, up[p].domain, up[p].value)))
         r == Serve(store[kind], req) IN
       /\ store' = [store EXCEPT ![kind] = r.lines]
       /\ up' = [up EXCEPT ![p] =
                   [@ EXCEPT !.pc = "done",
                             !.result = IF PutOk(r.status) THEN "ok" ELSE "error"]]
  /\ UNCHANGED UpFrame

\* the list of DeleteDNSRecord, called from UpdateDNSRecord; without a
\* record of the domain Delete returns nil and Update goes on to Create
UpsertDeleteList(p) ==
  /\ up[p].pc = "delete"
  /\ LET records == ParseRecords(kind, store[kind])
         b == DeleteBranch(records, up[p].domain) IN
       up' = [up EXCEPT ![p] =
                IF b.found THEN [@ EXCEPT !.pc = "del", !.target = b.value]
                           ELSE [@ EXCEPT !.pc = "create"]]
  /\ UNCHANGED <<store, UpFrame>>

\* the DELETE of DeleteDNSRecord; its error is the error of Update and Create
UpsertDelete(p) ==
  /\ up[p].pc = "del"
  /\ LET req == Request("DELETE", PathEscape(up[p].target))
         r == Serve(store[kind], req) IN
       /\ store' = [store EXCEPT ![kind] = r.lines]
       /\ up' = [up EXCEPT ![p] =
                   IF DeleteOk(r.status)
                     THEN [@ EXCEPT !.pc = "create", !.target = <<>>]
                     ELSE [@ EXCEPT !.pc = "done", !.result = "error"]]
  /\ UNCHANGED UpFrame

InitUpsert ==
  /\ kind \in Kinds
  /\ \E l \in {m \in ListsUpTo(Lines(kind), MaxInitRecords) : NoDuplicateLine(m)} :
       store = [k \in Kinds |-> IF k = kind THEN l ELSE <<>>]
  /\ config = DefaultConfig
  /\ call = NoCall
  /\ stack = <<>>
  /\ pc = "idle"
  /\ target = <<>>
  /\ attempt = 0
  /\ log = <<>>
  /\ answers = <<>>
  /\ faulty = FALSE
  /\ hist = <<>>
  /\ histDepth = 0
  /\ faults = 0
  /\ lastOp = [d \in Domains |-> <<"none">>]
  /\ fromEmpty = TRUE
  /\ RetryIdle
  /\ CacheIdle
  /\ SessIdle
  /\ CfgIdle
  /\ FnIdle
  /\ StaleIdle
  /\ ResIdle
  /\ UpIdle

NextUpsert ==
  \/ \E p \in Procs, d \in Domains, v \in Values :
       UpsertStart(p, d, v)
         /\ UNCHANGED <<retryVars, cacheVars, sessVars, cfgVars, fnVars, staleVars, resVars>>
  \/ \E p \in Procs :
       UpsertList(p)
         /\ UNCHANGED <<retryVars, cacheVars, sessVars, cfgVars, fnVars, staleVars, resVars>>
  \/ \E p \in Procs :
       UpsertPut(p)
         /\ UNCHANGED <<retryVars, cacheVars, sessVars, cfgVars, fnVars, staleVars, resVars>>
  \/ \E p \in Procs :
       UpsertDeleteList(p)
         /\ UNCHANGED <<retryVars, cacheVars, sessVars, cfgVars, fnVars, staleVars, resVars>>
  \/ \E p \in Procs :
       UpsertDelete(p)
         /\ UNCHANGED <<retryVars, cacheVars, sessVars, cfgVars, fnVars, staleVars, resVars>>

SpecUpsert == InitUpsert /\ [][NextUpsert]_vars

\* ------------------------------------------------------------------------
\* A cached client whose session the appliance invalidates
\* ------------------------------------------------------------------------
\* the appliance answers 200 to a request that carries the tokens of a
\* session it accepts, and 401 to any other
ApplianceAnswer(c, headers) ==
  IF c \in valid /\ headers = {<<"X-FTL-SID", clients[c].SessionID>>,
                                <<"X-FTL-CSRF", clients[c].CSRFToken>>}
    THEN [type |-> "resp", status |-> StatusOK, body |-> "json"]
    ELSE [type |-> "resp", status |-> StatusUnauthorized, body |-> "json"]

\* mutant: an operation takes any answer for a success
OperationResult_AnyAnswer(o) == IF o.type = "resp" THEN "ok" ELSE "error"

\* what an operation returns for the outcome of its request: an error for a
\* transport error and for a status it does not expect
OperationResult(o) ==
  IF o.type = "resp" /\ o.status = StatusOK THEN "ok" ELSE "error"

\* NewPiholeClient authenticates: the appliance grants a session
StaleNewClient(p) ==
  /\ NewClientReturns(p, TRUE)
  /\ valid' = valid \cup {Len(clients) + 1}
  /\ UNCHANGED qres

\* the appliance ends a session (its validity ran out, or it was revoked)
Invalidate(c) ==
  /\ c \in valid
  /\ valid' = valid \ {c}
  /\ UNCHANGED qres

\* c.HTTPClient.Do(req) against that appliance, and what the operation returns
StaleDo(p, reached) ==
  /\ qpc[p] = "do"
  /\ LET o == IF reached THEN ApplianceAnswer(qreq[p].client, qhdr[p])
                         ELSE [type |-> "err", err |-> ErrRefused]
     IN  /\ Do(p, o)
         /\ qres' = [qres EXCEPT ![p] = IF qpc'[p] = "idle" THEN OperationResult(o) ELSE @]
  /\ UNCHANGED valid

\* the operations the callers run on the client: a read and a write
StaleOperations == {operation \in Operations :
                      operation.op \in {"GetDNSRecords", "SetWebserverConfig"}}

InitStale ==
  /\ RecIdle
  /\ RetryIdle
  /\ CacheIdle
  /\ SessIdle
  /\ CfgIdle
  /\ FnIdle
  /\ StaleIdle
  /\ ResIdle
  /\ UpIdle

NextStale ==
  \/ \E p \in Procs :
       /\ qpc[p] = "idle"
       /\ GetOrCreateCall(p, SessionPair.url, SessionPair.password, SessionConfig)
       /\ UNCHANGED <<recVars, retryVars, sessVars, cfgVars, fnVars, staleVars, resVars, upVars>>
  \/ \E p \in Procs : RLock(p) /\ UNCHANGED <<recVars, retryVars, sessVars, cfgVars, fnVars, staleVars, resVars, upVars>>
  \/ \E p \in Procs : RCheck(p) /\ UNCHANGED <<recVars, retryVars, sessVars, cfgVars, fnVars, staleVars, resVars, upVars>>
  \/ \E p \in Procs : Lock(p) /\ UNCHANGED <<recVars, retryVars, sessVars, cfgVars, fnVars, staleVars, resVars, upVars>>
  \/ \E p \in Procs : Recheck(p) /\ UNCHANGED <<recVars, retryVars, sessVars, cfgVars, fnVars, staleVars, resVars, upVars>>
  \/ \E p \in Procs :
       StaleNewClient(p) /\ UNCHANGED <<recVars, retryVars, sessVars, cfgVars, fnVars, resVars, upVars>>
  \/ \E c \in valid :
       Invalidate(c) /\ UNCHANGED <<recVars, retryVars, cacheVars, sessVars, cfgVars, fnVars, resVars, upVars>>
  \/ \E p \in Procs, operation \in StaleOperations :
       MakeRequestCall(p, operation)
         /\ UNCHANGED <<recVars, retryVars, cacheVars, cfgVars, fnVars, staleVars, resVars, upVars>>
  \/ \E p \in Procs : ReadSessionID(p) /\ UNCHANGED <<recVars, retryVars, cacheVars, cfgVars, fnVars, staleVars, resVars, upVars>>
  \/ \E p \in Procs : ReadCSRFToken(p) /\ UNCHANGED <<recVars, retryVars, cacheVars, cfgVars, fnVars, staleVars, resVars, upVars>>
  \/ \E p \in Procs, reached \in BOOLEAN :
       StaleDo(p, reached) /\ UNCHANGED <<recVars, retryVars, cacheVars, cfgVars, fnVars, resVars, upVars>>

SpecStale == InitStale /\ [][NextStale]_vars

\* ------------------------------------------------------------------------
\* Configuration: GetConfig, SetConfig and the webserver section
\* ------------------------------------------------------------------------
\* the configuration calls of one run
MaxConfigCalls == 2

\* Go values that a caller sets, and their JSON literals
GoValues == {[t |-> "bool", v |-> "true"], [t |-> "bool", v |-> "false"],
             [t |-> "string", v |-> "8080"],
             [t |-> "int", v |-> "8080"],
             [t |-> "int", v |-> "9007199254740993"],
             [t |-> "float64", v |-> "8080"]}

\* json.Marshal of a scalar: a string is quoted, a bool or number is not
MarshalValue(g) == IF g.t = "string" THEN <<"\"", g.v, "\"">> ELSE <<g.v>>

\* the float64 nearest to a JSON number: 2^53 + 1 is not a float64
Float64Of(lit) == IF lit = "9007199254740993" THEN "9007199254740992" ELSE lit

\* json.Unmarshal of a scalar into interface{}: every number is a float64
UnmarshalValue(j) ==
  IF Len(j) = 3 THEN [t |-> "string", v |-> j[2]]
  ELSE IF j[1] \in {"true", "false"} THEN [t |-> "bool", v |-> j[1]]
  ELSE [t |-> "float64", v |-> Float64Of(j[1])]

\* json.Marshal / json.Unmarshal of a document
RECURSIVE Marshal(_)
Marshal(d) ==
  IF d.kind = "leaf" THEN Leaf(MarshalValue(d.v))
  ELSE Map([k \in DOMAIN d.m |-> Marshal(d.m[k])])

RECURSIVE Unmarshal(_)
Unmarshal(d) ==
  IF d.kind = "leaf" THEN Leaf(UnmarshalValue(d.v))
  ELSE Map([k \in DOMAIN d.m |-> Unmarshal(d.m[k])])

\* a map with one more member, or one member replaced
With(f, k, x) == [j \in DOMAIN f \cup {k} |-> IF j = k THEN x ELSE f[j]]
Only(k, x) == With(NoMembers, k, x)

\* strings.Split(configKey, "."): the segments between the dots
RECURSIVE Split(_)
Split(key) ==
  IF \A i \in 1..Len(key) : key[i] # "."
    THEN <<key>>
    ELSE LET i == CHOOSE j \in 1..Len(key) :
                    key[j] = "." /\ \A h \in 1..(j - 1) : key[h] # "."
         IN  <<SubSeq(key, 1, i - 1)>> \o Split(SubSeq(key, i + 1, Len(key)))

\* the configuration keys the callers use
ConfigKeys ==
  {<<"webserver", ".", "api", ".", "app_sudo">>,
   <<"webserver", ".", "api", ".", "max_sessions">>,
   <<"webserver", ".", "port">>,
   <<"webserver", ".", "port", ".", "tls">>,
   <<"webserver", ".", "paths", ".", "webroot">>,
   <<"webserver">>,
   <<"dns", ".", "port">>,
   <<"misc", ".", "privacylevel">>}

\* the webserver sections an appliance may hold, as JSON
WebserverDocs ==
  {Map(Only(<<"api">>, Map(With(Only(<<"app_sudo">>, Leaf(<<b>>)),
                                <<"max_sessions">>, Leaf(<<"16">>))))) :
     b \in {"true", "false"}}
  \cup {Map(With(Only(<<"api">>, Map(Only(<<"app_sudo">>, Leaf(<<"false">>)))),
                 <<"port">>, Leaf(<<"\"", "80", "\"">>)))}

\* the appliance serves GET /api/config/<section> and PUT /api/config/webserver
ServeConfig(doc, req) ==
  IF req.method = "GET"
    THEN IF req.section \in DOMAIN doc.m
           THEN [status |-> StatusOK,
                 body |-> Map(Only(<<"config">>,
                                   Map(Only(req.section, doc.m[req.section])))),
                 doc |-> doc]
           ELSE [status |-> StatusNotFound, body |-> Leaf(<<"not found">>),
                 doc |-> doc]
    ELSE [status |-> StatusOK, body |-> Leaf(<<"success">>),
          doc |-> Map(With(doc.m, req.section, req.body))]

ConfigRequest(method, section, body) ==
  [method |-> method, endpoint |-> <<"/api/config/">> \o section,
   section |-> section, body |-> body]

\* what a config request meets: the appliance's answer, or a 500
ConfigOutcomes == {"resp", "http500"}
ConfigMet(o, ans) ==
  IF o = "resp" THEN ans
  ELSE [status |-> StatusInternalServerError, body |-> Leaf(<<"internal error">>),
        doc |-> ans.doc]

ConfigOk(value) == [ok |-> TRUE, err |-> "none", value |-> value]
ConfigErr(err) == [ok |-> FALSE, err |-> err, value |-> Leaf(<<>>)]

\* mutant: a scalar met on the way counts as a missing key
WalkStep_ScalarNotFound(cur, part) ==
  IF cur.kind = "map" /\ part \in DOMAIN cur.m
    THEN ConfigOk(cur.m[part])
    ELSE ConfigErr("not found")

\* GetConfig: one pass of the loop over configParts
WalkStep(cur, part) ==
  IF cur.kind = "map"
    THEN IF part \in DOMAIN cur.m
           THEN ConfigOk(cur.m[part])
           ELSE ConfigErr("not found")
    ELSE ConfigErr("structure not as expected")

\* GetConfig: the loop over configParts, from currentValue = apiResp.Config
RECURSIVE Walk(_, _)
Walk(cur, parts) ==
  IF parts = <<>> THEN ConfigOk(cur)
  ELSE LET r == WalkStep(cur, Head(parts)) IN
       IF r.ok THEN Walk(r.value, Tail(parts)) ELSE r

\* mutant: the updated configuration starts empty
CopyOf_Empty(currentConfig) == Map([k \in {} |-> currentConfig])

\* updatedConfig: a map holding every member of currentConfig
CopyOf(currentConfig) ==
  Map([k \in DOMAIN currentConfig.m |-> currentConfig.m[k]])

\* mutant: an intermediate segment is always given a new empty map
ChildOf_Overwrite(cur, part) == Map(NoMembers)

\* if _, exists := current[part]; !exists { current[part] = make(map[string]interface{}) }
ChildOf(cur, part) == IF part \in DOMAIN cur.m THEN cur.m[part] ELSE Map(NoMembers)

\* setWebserverConfigValue: the loop over keyParts, from current
RECURSIVE SetPath(_, _, _)
SetPath(cur, keyParts, value) ==
  LET part == Head(keyParts) IN
  IF Len(keyParts) = 1
    THEN [err |-> FALSE, doc |-> Map(With(cur.m, part, value))]
    ELSE LET child == ChildOf(cur, part)
         IN  IF child.kind = "map"
               THEN LET r == SetPath(child, Tail(keyParts), value)
                    IN  [err |-> r.err, doc |-> Map(With(cur.m, part, r.doc))]
               ELSE [err |-> TRUE, doc |-> cur]

\* mutant: every first segment is taken for the webserver section
Supported_Any(configParts) == Len(configParts) > 0

\* len(configParts) > 0 && configParts[0] == "webserver"
Supported(configParts) ==
  Len(configParts) > 0 /\ configParts[1] = <<"webserver">>

\* the statuses that SetWebserverConfig accepts
SetOk(status) == status = StatusOK \/ status = StatusNoContent

\* GetConfig(configKey)
GetConfig(key, o) ==
  LET configParts == Split(key)
      req == ConfigRequest("GET", configParts[1], Leaf(<<>>))
      met == ConfigMet(o, ServeConfig(appConfig, req))
  IN
  /\ ncalls < MaxConfigCalls
  /\ ncalls' = ncalls + 1
  /\ cop' = [name |-> "GetConfig", key |-> key]
  /\ cprev' = appConfig
  /\ clog' = <<req>>
  /\ UNCHANGED appConfig
  /\ cres' = IF met.status # StatusOK
               THEN [ConfigErr("status") EXCEPT !.value = Leaf(<<met.status>>)]
               ELSE LET r == Walk(Unmarshal(met.body).m[<<"config">>], configParts)
                    IN  IF r.ok
                          THEN ConfigOk([Key |-> key, Value |-> r.value])
                          ELSE r

\* SetConfig(configKey, value), with setWebserverConfigValue,
\* GetWebserverConfig and SetWebserverConfig
SetConfig(key, value, oGet, oPut) ==
  LET configParts == Split(key)
      get == ConfigRequest("GET", <<"webserver">>, Leaf(<<>>))
      metGet == ConfigMet(oGet, ServeConfig(appConfig, get))
      currentConfig == Unmarshal(metGet.body).m[<<"config">>].m[<<"webserver">>]
      updated == SetPath(CopyOf(currentConfig), Tail(configParts), Leaf(value))
      put == ConfigRequest("PUT", <<"webserver">>, Marshal(updated.doc))
      metPut == ConfigMet(oPut, ServeConfig(appConfig, put))
  IN
  /\ ncalls < MaxConfigCalls
  /\ ncalls' = ncalls + 1
  /\ cop' = [name |-> "SetConfig", key |-> key, value |-> value]
  /\ cprev' = appConfig
  /\ IF ~Supported(configParts)
       THEN /\ cres' = ConfigErr("not yet supported")
            /\ clog' = <<>>
            /\ UNCHANGED appConfig
     ELSE IF metGet.status # StatusOK
       THEN /\ cres' = [ConfigErr("status") EXCEPT !.value = Leaf(<<metGet.status>>)]
            /\ clog' = <<get>>
            /\ UNCHANGED appConfig
     ELSE IF Len(configParts) < 2
       THEN /\ cres' = ConfigErr("invalid key format")
            /\ clog' = <<get>>
            /\ UNCHANGED appConfig
     ELSE IF updated.err
       THEN /\ cres' = ConfigErr("not a nested object")
            /\ clog' = <<get>>
            /\ UNCHANGED appConfig
     ELSE /\ clog' = <<get, put>>
          /\ appConfig' = metPut.doc
          /\ cres' = IF SetOk(metPut.status)
                       THEN ConfigOk(Leaf(<<>>))
                       ELSE [ConfigErr("status") EXCEPT !.value = Leaf(<<metPut.status>>)]

InitConfig ==
  /\ RecIdle
  /\ RetryIdle
  /\ CacheIdle
  /\ SessIdle
  /\ FnIdle
  /\ StaleIdle
  /\ ResIdle
  /\ UpIdle
  /\ \E w \in WebserverDocs :
       appConfig = Map(With(Only(<<"webserver">>, w),
                            <<"dns">>, Map(Only(<<"port">>, Leaf(<<"\"", "53", "\"">>)))))
  /\ cop = NoConfigCall
  /\ clog = <<>>
  /\ cres = [ok |-> TRUE, err |-> "none"]
  /\ cprev = appConfig
  /\ ncalls = 0
  /\ cstate = NoState
  /\ crop = NoConfigCall

NextConfig ==
  \/ \E key \in ConfigKeys, o \in ConfigOutcomes :
       GetConfig(key, o)
         /\ UNCHANGED <<cstate, crop, recVars, retryVars, cacheVars, sessVars, fnVars, staleVars, resVars, upVars>>
  \/ \E key \in ConfigKeys, value \in GoValues, oGet, oPut \in ConfigOutcomes :
       SetConfig(key, value, oGet, oPut)
         /\ UNCHANGED <<cstate, crop, recVars, retryVars, cacheVars, sessVars, fnVars, staleVars, resVars, upVars>>

SpecConfig == InitConfig /\ [][NextConfig]_vars

\* ------------------------------------------------------------------------
\* Two callers of SetConfig on one client
\* ------------------------------------------------------------------------
\* The GET of the section and the PUT of the updated section are two requests;
\* the client holds no lock between them.
NoSetCall == [pc |-> "idle", key |-> <<>>, value |-> <<>>, body |-> Leaf(<<>>),
              result |-> "none"]

\* the keys and values of the concurrent writes
RaceKeys == {key \in ConfigKeys : Supported(Split(key))}
RaceValues == {g \in GoValues : g.t \in {"bool", "string"}}

SetFrame == <<cop, clog, cres, cprev, ncalls, cstate, crop>>

\* a caller enters SetConfig(key, value)
SetStart(p, key, value) ==
  /\ up[p].pc = "idle"
  /\ up' = [up EXCEPT ![p] = [NoSetCall EXCEPT !.pc = "get", !.key = key,
                                                !.value = value]]
  /\ UNCHANGED <<appConfig, SetFrame>>

\* GetWebserverConfig and the loop of setWebserverConfigValue over the copy
SetGet(p) ==
  /\ up[p].pc = "get"
  /\ LET configParts == Split(up[p].key)
         get == ConfigRequest("GET", <<"webserver">>, Leaf(<<>>))
         ans == ServeConfig(appConfig, get)
         currentConfig == Unmarshal(ans.body).m[<<"config">>].m[<<"webserver">>]
         updated == SetPath(CopyOf(currentConfig), Tail(configParts), Leaf(up[p].value))
     IN  up' = [up EXCEPT ![p] =
                  IF Len(configParts) < 2 \/ updated.err
                    THEN [@ EXCEPT !.pc = "done", !.result = "error"]
                    ELSE [@ EXCEPT !.pc = "put", !.body = Marshal(updated.doc)]]
  /\ UNCHANGED <<appConfig, SetFrame>>

\* SetWebserverConfig: the PUT of the updated section
SetPut(p) ==
  /\ up[p].pc = "put"
  /\ LET put == ConfigRequest("PUT", <<"webserver">>, up[p].body)
         ans == ServeConfig(appConfig, put)
     IN  /\ appConfig' = ans.doc
         /\ up' = [up EXCEPT ![p] =
                     [@ EXCEPT !.pc = "done",
                               !.result = IF SetOk(ans.status) THEN "ok" ELSE "error"]]
  /\ UNCHANGED SetFrame

InitConfigRace ==
  /\ RecIdle
  /\ RetryIdle
  /\ CacheIdle
  /\ SessIdle
  /\ FnIdle
  /\ StaleIdle
  /\ ResIdle
  /\ \E w \in WebserverDocs :
       appConfig = Map(With(Only(<<"webserver">>, w),
                            <<"dns">>, Map(Only(<<"port">>, Leaf(<<"\"", "53", "\"">>)))))
  /\ cop = NoConfigCall
  /\ clog = <<>>
  /\ cres = [ok |-> TRUE, err |-> "none"]
  /\ cprev = appConfig
  /\ ncalls = 0
  /\ cstate = NoState
  /\ crop = NoConfigCall
  /\ up = [p \in Procs |-> NoSetCall]

NextConfigRace ==
  \/ \E p \in Procs, key \in RaceKeys, value \in RaceValues :
       SetStart(p, key, value)
         /\ UNCHANGED <<recVars, retryVars, cacheVars, sessVars, fnVars, staleVars, resVars>>
  \/ \E p \in Procs :
       SetGet(p)
         /\ UNCHANGED <<recVars, retryVars, cacheVars, sessVars, fnVars, staleVars, resVars>>
  \/ \E p \in Procs :
       SetPut(p)
         /\ UNCHANGED <<recVars, retryVars, cacheVars, sessVars, fnVars, staleVars, resVars>>

SpecConfigRace == InitConfigRace /\ [][NextConfigRace]_vars

\* ------------------------------------------------------------------------
\* One caller of the record operations, the lists and the config reads
\* ------------------------------------------------------------------------
\* In one run the caller works on the records or reads the configuration.
InitFrame ==
  /\ kind \in Kinds
  /\ \E l \in {m \in ListsUpTo(Lines(kind), MaxInitRecords) : NoDuplicateLine(m)} :
       /\ store = [k \in Kinds |-> IF k = kind THEN l ELSE <<>>]
       /\ fromEmpty = (l = <<>>)
  /\ config = DefaultConfig
  /\ call = NoCall
  /\ stack = <<>>
  /\ pc = "idle"
  /\ target = <<>>
  /\ attempt = 0
  /\ log = <<>>
  /\ answers = <<>>
  /\ faulty = FALSE
  /\ hist = <<>>
  /\ histDepth = 1
  /\ faults = 0
  /\ lastOp = [d \in Domains |-> <<"none">>]
  /\ RetryIdle
  /\ CacheIdle
  /\ SessIdle
  /\ FnIdle
  /\ StaleIdle
  /\ ResIdle
  /\ UpIdle
  /\ appConfig = Map(With(Only(<<"webserver">>,
                               Map(Only(<<"port">>, Leaf(<<"\"", "80", "\"">>)))),
                          <<"dns">>, Map(Only(<<"port">>, Leaf(<<"\"", "53", "\"">>)))))
  /\ cop = NoConfigCall
  /\ clog = <<>>
  /\ cres = [ok |-> TRUE, err |-> "none"]
  /\ cprev = appConfig
  /\ ncalls = 0
  /\ cstate = NoState
  /\ crop = NoConfigCall

NextFrame ==
  \/ /\ cop = NoConfigCall
     /\ \E d \in Domains, v \in Values : StartCall("Create", d, v)
     /\ UNCHANGED <<retryVars, cacheVars, sessVars, cfgVars, fnVars, staleVars, resVars, upVars>>
  \/ /\ cop = NoConfigCall
     /\ \E d \in Domains : StartCall("Delete", d, <<>>)
     /\ UNCHANGED <<retryVars, cacheVars, sessVars, cfgVars, fnVars, staleVars, resVars, upVars>>
  \/ /\ cop = NoConfigCall
     /\ StartCall("List", <<>>, <<>>)
     /\ UNCHANGED <<retryVars, cacheVars, sessVars, cfgVars, fnVars, staleVars, resVars, upVars>>
  \/ \E o \in ListOutcomes : ListAttempt(o) /\ UNCHANGED <<retryVars, cacheVars, sessVars, cfgVars, fnVars, staleVars, resVars, upVars>>
  \/ \E o \in Outcomes : MutateAttempt(o) /\ UNCHANGED <<retryVars, cacheVars, sessVars, cfgVars, fnVars, staleVars, resVars, upVars>>
  \/ /\ pc = "idle" /\ hist = <<>>
     /\ \E key \in ConfigKeys, o \in ConfigOutcomes : GetConfig(key, o)
     /\ UNCHANGED <<cstate, crop, recVars, retryVars, cacheVars, sessVars, fnVars, staleVars, resVars, upVars>>

SpecFrame == InitFrame /\ [][NextFrame]_vars

\* ------------------------------------------------------------------------
\* The pihole_config resource: Create, Read, Update, Delete
\* ------------------------------------------------------------------------
\* the value strings a configuration declares
Declared == {"true", "TRUE", "True", "tRuE", "false", "FALSE", "False", "fAlSe",
             "other", "123"}

\* strings.ToLower on those strings
ToLower(value) ==
  CASE value \in {"true", "TRUE", "True", "tRuE"} -> "true"
    [] value \in {"false", "FALSE", "False", "fAlSe"} -> "false"
    [] OTHER -> value

\* mutant: the declared string is compared as written
ConvertValue_CaseSensitive(value) ==
  IF value = "true" THEN [t |-> "bool", v |-> "true"]
  ELSE IF value = "false" THEN [t |-> "bool", v |-> "false"]
  ELSE [t |-> "string", v |-> value]

\* Create / Update: configValue from the declared string
ConvertValue(value) ==
  IF ToLower(value) = "true" THEN [t |-> "bool", v |-> "true"]
  ELSE IF ToLower(value) = "false" THEN [t |-> "bool", v |-> "false"]
  ELSE [t |-> "string", v |-> value]

\* mutant: the default of a setting is true
DefaultValue_True(key) == [t |-> "bool", v |-> "true"]

\* Delete: defaultValue, false for webserver.api.app_sudo and for every key
DefaultValue(key) ==
  IF key = <<"webserver", ".", "api", ".", "app_sudo">>
    THEN [t |-> "bool", v |-> "false"]
    ELSE [t |-> "bool", v |-> "false"]

\* Read: valueStr from configSetting.Value
ValueString(x) ==
  IF x.kind = "map" THEN "map[...]"
  ELSE x.v.v

StateOf(key, value) == [present |-> TRUE, Key |-> key, Value |-> value, ID |-> key]

ConfigCreate(key, value, oGet, oPut) ==
  /\ ~cstate.present
  /\ SetConfig(key, ConvertValue(value), oGet, oPut)
  /\ crop' = [name |-> "Create", key |-> key, value |-> value]
  /\ cstate' = IF cres'.ok THEN StateOf(key, value) ELSE cstate

ConfigRead(o) ==
  /\ cstate.present
  /\ GetConfig(cstate.Key, o)
  /\ crop' = [name |-> "Read", key |-> cstate.Key]
  /\ cstate' = IF cres'.ok
                 THEN StateOf(cstate.Key, ValueString(cres'.value.Value))
                 ELSE cstate

ConfigUpdate(value, oGet, oPut) ==
  /\ cstate.present
  /\ SetConfig(cstate.Key, ConvertValue(value), oGet, oPut)
  /\ crop' = [name |-> "Update", key |-> cstate.Key, value |-> value]
  /\ cstate' = IF cres'.ok THEN StateOf(cstate.Key, value) ELSE cstate

\* Delete; the framework drops the state when Delete reports no error
ConfigDelete(oGet, oPut) ==
  /\ cstate.present
  /\ SetConfig(cstate.Key, DefaultValue(cstate.Key), oGet, oPut)
  /\ crop' = [name |-> "Delete", key |-> cstate.Key]
  /\ cstate' = IF cres'.ok THEN NoState ELSE cstate

\* a resource not yet created, or one in state from an earlier run
InitConfigResource ==
  /\ RecIdle
  /\ RetryIdle
  /\ CacheIdle
  /\ SessIdle
  /\ FnIdle
  /\ StaleIdle
  /\ ResIdle
  /\ UpIdle
  /\ \E w \in WebserverDocs :
       appConfig = Map(With(Only(<<"webserver">>, w),
                            <<"dns">>, Map(Only(<<"port">>, Leaf(<<"\"", "53", "\"">>)))))
  /\ cop = NoConfigCall
  /\ clog = <<>>
  /\ cres = [ok |-> TRUE, err |-> "none"]
  /\ cprev = appConfig
  /\ ncalls = 0
  /\ cstate \in {NoState} \cup {StateOf(key, "false") : key \in ConfigKeys}
  /\ crop = NoConfigCall

NextConfigResource ==
  \/ \E key \in ConfigKeys, value \in Declared, oGet, oPut \in ConfigOutcomes :
       ConfigCreate(key, value, oGet, oPut)
         /\ UNCHANGED <<recVars, retryVars, cacheVars, sessVars, fnVars, staleVars, resVars, upVars>>
  \/ \E o \in ConfigOutcomes :
       ConfigRead(o) /\ UNCHANGED <<recVars, retryVars, cacheVars, sessVars, fnVars, staleVars, resVars, upVars>>
  \/ \E value \in Declared, oGet, oPut \in ConfigOutcomes :
       ConfigUpdate(value, oGet, oPut)
         /\ UNCHANGED <<recVars, retryVars, cacheVars, sessVars, fnVars, staleVars, resVars, upVars>>
  \/ \E oGet, oPut \in ConfigOutcomes :
       ConfigDelete(oGet, oPut)
         /\ UNCHANGED <<recVars, retryVars, cacheVars, sessVars, fnVars, staleVars, resVars, upVars>>

SpecConfigResource == InitConfigResource /\ [][NextConfigResource]_vars

\* ------------------------------------------------------------------------
\* Functions of the provider that keep no state: the decode loop of a list
\* answer, and the provider's registration
\* ------------------------------------------------------------------------
MaxWireLines == 3

\* lines an appliance may list: well-formed for one kind or the other, with
\* more than one separator, with an empty first field, empty, or without any
WireLines ==
  {<<"v1", " ", "a.lan">>, <<"a.lan", ",", "v1">>, Garbage, <<>>,
   <<"v1", " ", "a.lan", " ", "b.lan">>, <<" ", "a.lan">>,
   <<"a.lan", ",", "v1", ",", "v2">>, <<"v1", " ", "a.lan", ",", "b.lan">>}

\* the constructors registered by the provider, each named by the type name
\* its Metadata sets after the provider's prefix
NewDNSRecordResource == "dns_record"
NewCNAMERecordResource == "cname_record"
NewConfigResource == "config"
NewDNSRecordsDataSource == "dns_records"
NewCNAMERecordsDataSource == "cname_records"
NewDNSRecordDataSource == "dns_record"
NewCNAMERecordDataSource == "cname_record"
NewConfigDataSource == "config"

\* PiholeProvider.Resources
Resources == <<NewDNSRecordResource, NewCNAMERecordResource>>

\* PiholeProvider.DataSources
DataSources == <<NewDNSRecordsDataSource, NewCNAMERecordsDataSource,
                 NewDNSRecordDataSource, NewCNAMERecordDataSource>>

\* the decode loop applied to the lines of a list answer
DecodeList ==
  /\ out = NoOut
  /\ out' = [fn |-> "GetRecords", value |-> ParseRecords(arg.kind, arg.lines)]
  /\ UNCHANGED arg

\* the framework asks the provider for its resources / data sources
CallResources ==
  /\ out = NoOut
  /\ out' = [fn |-> "Resources", value |-> Resources]
  /\ UNCHANGED arg

CallDataSources ==
  /\ out = NoOut
  /\ out' = [fn |-> "DataSources", value |-> DataSources]
  /\ UNCHANGED arg

InitFn ==
  /\ RecIdle
  /\ RetryIdle
  /\ CacheIdle
  /\ SessIdle
  /\ CfgIdle
  /\ StaleIdle
  /\ ResIdle
  /\ UpIdle
  /\ arg \in {[kind |-> k, lines |-> l] :
                k \in Kinds, l \in ListsUpTo(WireLines, MaxWireLines)}
  /\ out = NoOut

NextFn ==
  \/ DecodeList /\ UNCHANGED <<recVars, retryVars, cacheVars, sessVars, cfgVars, staleVars, resVars, upVars>>
  \/ CallResources /\ UNCHANGED <<recVars, retryVars, cacheVars, sessVars, cfgVars, staleVars, resVars, upVars>>
  \/ CallDataSources /\ UNCHANGED <<recVars, retryVars, cacheVars, sessVars, cfgVars, staleVars, resVars, upVars>>

SpecFn == InitFn /\ [][NextFn]_vars

\* ------------------------------------------------------------------------
\* Claims about the record client (SpecRec)
\* ------------------------------------------------------------------------
MutatingOf(l) == SelectSeq(l, Mutating)
ListRequest == Request("GET", <<>>)
PutOf(d, v) == Request("PUT", PathEscape(RecordValue(kind, d, v)))
DeleteOf(d, v) == Request("DELETE", PathEscape(RecordValue(kind, d, v)))
Last == hist[Len(hist)]

\* an upsert of (d, v) on an appliance without a record of d, directly
\* followed by the same upsert
UpsertTwice ==
  /\ Len(hist) = 2
  /\ hist[1].name = "Create" /\ hist[1].preVals = <<>> /\ ~hist[1].faulty
  /\ hist[2].name = "Create" /\ ~hist[2].faulty
  /\ hist[2].domain = hist[1].domain /\ hist[2].value = hist[1].value

\* C1: upsert(d, v) on an appliance that holds no record of d, followed by the
\* same upsert, sends one PUT of (d, v) and no DELETE in total; the second
\* call sends only the list request, and both calls succeed.
C1_IdempotentUpsert ==
  UpsertTwice =>
    /\ MutatingOf(hist[1].log \o hist[2].log) = <<PutOf(hist[1].domain, hist[1].value)>>
    /\ hist[2].log = <<ListRequest>>
    /\ hist[1].result.ok /\ hist[2].result.ok

C1_Witness == UpsertTwice /\ pc = "idle"

\* an upsert (or an update) of (d, v2) that found exactly one record of d,
\* holding another value
ValueChange ==
  /\ hist # <<>>
  /\ Last.name \in {"Create", "Update"} /\ ~Last.faulty
  /\ Len(Last.preVals) = 1 /\ Last.preVals[1] # Last.value

\* C2: upsert(d, v2) on an appliance that holds exactly one record (d, v1),
\* v1 # v2, sends as mutating requests one DELETE of (d, v1) and then one
\* PUT of (d, v2), and no other.
C2_ValueChangeUpsert ==
  ValueChange =>
    MutatingOf(Last.log) = <<DeleteOf(Last.domain, Last.preVals[1]),
                             PutOf(Last.domain, Last.value)>>

C2_Witness == ValueChange /\ Last.name = "Create" /\ Last.result.ok

\* C3: from an empty appliance, after any sequence of successful upserts and
\* deletes of one caller the list holds at most one record per domain, and a
\* domain whose last operation was upsert(d, v) has exactly the record (d, v).
C3_OneRecordPerDomain ==
  (fromEmpty /\ pc = "idle") =>
    \A d \in Domains :
      /\ Len(ValuesOf(store[kind], d)) <= 1
      /\ lastOp[d] \in Values => ValuesOf(store[kind], d) = <<lastOp[d]>>
      /\ lastOp[d] = <<"deleted">> => ValuesOf(store[kind], d) = <<>>

\* an upsert changed the value of a domain that had a record
C3_Witness ==
  /\ fromEmpty /\ pc = "idle" /\ Len(hist) = 2
  /\ hist[1].domain = hist[2].domain
  /\ hist[1].name = "Create" /\ hist[2].name = "Create"
  /\ hist[1].value # hist[2].value
  /\ \E d \in Domains : lastOp[d] \in Values /\ d # hist[2].domain

NoRecordDelete ==
  /\ hist # <<>>
  /\ Last.name = "Delete" /\ Last.preVals = <<>> /\ ~Last.faulty

DeleteTwice ==
  /\ Len(hist) = 2
  /\ hist[1].name = "Delete" /\ hist[2].name = "Delete"
  /\ hist[1].domain = hist[2].domain
  /\ ~hist[1].faulty /\ ~hist[2].faulty

DeletesOf(l) == SelectSeq(l, LAMBDA r : r.method = "DELETE")

\* C4 (as stated): a delete of a domain without a record succeeds with the
\* list request only, and delete followed by delete of the same domain sends
\* at most one DELETE in total.
C4_AsStated ==
  /\ NoRecordDelete => (Last.result.ok /\ Last.log = <<ListRequest>>)
  /\ DeleteTwice => Len(DeletesOf(hist[1].log \o hist[2].log)) <= 1

\* C4 (amended): a delete of a domain without a record succeeds with the list
\* request only; delete followed by delete of the same domain sends at most
\* one DELETE in total when the appliance listed at most one record of the
\* domain before the first delete.
C4_IdempotentDelete ==
  /\ NoRecordDelete => (Last.result.ok /\ Last.log = <<ListRequest>>)
  /\ (DeleteTwice /\ Len(hist[1].preVals) <= 1) =>
       Len(DeletesOf(hist[1].log \o hist[2].log)) <= 1

C4_Witness ==
  /\ DeleteTwice /\ Len(hist[1].preVals) = 1
  /\ hist[2].preVals = <<>> /\ hist[2].result.ok

\* C23: every create and delete request addresses its record by one path
\* segment that percent-decodes to the record's wire form; in the encoded
\* segment a space is sent as %20 and the comma of an alias record is sent
\* literally.
C23_CompositeKeyPath ==
  \A i \in 1..Len(log) :
    Mutating(log[i]) =>
      LET p == log[i].path IN
      /\ \E d \in Domains, v \in Values : PathUnescape(p) = RecordValue(log[i].ep, d, v)
      /\ \A j \in 1..Len(p) : p[j] \notin {" ", "/"}
      /\ log[i].ep = "hosts" => \E j \in 1..Len(p) : p[j] = "%20"
      /\ log[i].ep = "cnameRecords" => \E j \in 1..Len(p) : p[j] = ","

\* ------------------------------------------------------------------------
\* Claims about the record client when requests can fail (SpecRecFault)
\* ------------------------------------------------------------------------
Success2xx(status) == status >= 200 /\ status <= 299

\* the last completed call was an upsert or update in which a DELETE was
\* answered with success and whose last request, a later one, failed: no
\* response, or a response with an error status
DeleteThenFailure ==
  /\ pc = "idle" /\ hist # <<>>
  /\ Last.name \in {"Create", "Update"}
  /\ LET n == Len(Last.log) IN
     /\ \E i \in 1..(n - 1) :
          /\ Last.log[i].method = "DELETE"
          /\ Last.answers[i].status \in {StatusOK, StatusNoContent}
     /\ ~Success2xx(Last.answers[n].status)

C17_MutationStatus ==
  (pc = "idle" /\ hist # <<>>) =>
    LET n == Len(Last.log) IN
    \A i \in 1..n :
      LET r == Last.log[i]
          a == Last.answers[i]
      IN
      /\ (r.method = "PUT" /\ a # NoAnswer) =>
           /\ i = n
           /\ Last.result.ok <=> a.status \in {StatusOK, StatusCreated}
           /\ ~Last.result.ok => Last.result = Err(a.status, a.body)
      /\ (r.method = "DELETE" /\ a # NoAnswer) =>
           IF a.status \in {StatusOK, StatusNoContent}
             THEN /\ i = n => Last.result.ok
                  /\ i < n => Last.log[i + 1] = ListRequest
             ELSE /\ i = n
                  /\ Last.result = Err(a.status, a.body)

\* a PUT answered 204, a 2xx status, ended the call with an error
C17_Witness ==
  /\ pc = "idle" /\ hist # <<>>
  /\ Last.log # <<>>
  /\ Last.log[Len(Last.log)].method = "PUT"
  /\ Last.answers[Len(Last.log)].status = StatusNoContent
  /\ Last.result = Err(StatusNoContent, "config")

\* ------------------------------------------------------------------------
\* Claims about the retry loops (SpecRetry)
\* ------------------------------------------------------------------------
Failed(o) == o.type = "err" \/ o.status # StatusOK \/ o.body # "valid"

\* C7: for a retry count r >= 0 a call of makeRequestWithRetry or
\* authenticateWithRetry sends at most r + 1 requests, and an error it
\* returns is (or wraps) the error of its most recent attempt.
C7_RetryBudget ==
  (rcall.fn # "none" /\ rcall.retries >= 0) =>
    /\ Len(sent) <= rcall.retries + 1
    /\ (rpc = "returned" /\ rresult.kind = "err") =>
         /\ sent # <<>>
         /\ rresult.cause = [attempt |-> Len(sent) - 1, what |-> sent[Len(sent)]]

\* every attempt of the budget failed
C7_Witness ==
  /\ rcall.retries = MaxRetries /\ Len(sent) = MaxRetries + 1
  /\ rpc = "returned" /\ rresult.kind = "err"
  /\ \A k \in 1..Len(sent) : sent[k].type = "err"

\* C8: no sleep precedes the first attempt and the sleep before the k-th
\* retry is k * k * backoffBase; with retries = 3 and a base of 50 ms, two
\* failures and a success on the third attempt sleep 50 ms, then 200 ms.
C8_BackoffSchedule ==
  /\ Len(sleeps) = (IF sent = <<>> THEN 0 ELSE Len(sent) - 1)
  /\ \A k \in 1..Len(sleeps) : sleeps[k] = k * k * rcall.backoffMs
  /\ (/\ rcall.retries = 3 /\ rcall.backoffMs = 50
      /\ rpc = "returned" /\ Len(sent) = 3 /\ rresult.kind # "err")
       => sleeps = <<50, 200>>

C8_Witness ==
  /\ rcall.retries = 3 /\ rcall.backoffMs = 50
  /\ rpc = "returned" /\ Len(sent) = 3 /\ rresult.kind # "err"
  /\ Failed(sent[1]) /\ Failed(sent[2])

\* the error texts that the request executor is to retry
NamedRetryable(e) ==
  \E ph \in {"connection refused", "EOF", "timeout", "connection reset"} :
    Contains(e, ph)

\* attempt k of the call in progress was followed, or is to be followed, by
\* another attempt
Retried(k) == k < Len(sent) \/ (k = Len(sent) /\ rpc = "running")

\* C9: makeRequestWithRetry retries an attempt exactly when the transport
\* returned an error whose text contains 'connection refused', 'EOF',
\* 'timeout' or 'connection reset' and budget remains; any other transport
\* error and any HTTP response, whatever its status, ends the call and is
\* what the call returns.
C9_RetryClassification ==
  rcall.fn = "makeRequestWithRetry" =>
    \A k \in 1..Len(sent) :
      /\ Retried(k) <=> (/\ sent[k].type = "err"
                         /\ NamedRetryable(sent[k].err)
                         /\ k - 1 < rcall.retries)
      /\ ~Retried(k) =>
           /\ rpc = "returned"
           /\ sent[k].type = "resp" =>
                rresult = [kind |-> "resp", status |-> sent[k].status,
                           body |-> sent[k].body]
           /\ sent[k].type = "err" =>
                rresult = [kind |-> "err",
                           cause |-> [attempt |-> k - 1, what |-> sent[k]]]

\* an error status ended the call at its first attempt, with budget left
C9_Witness ==
  /\ rcall.fn = "makeRequestWithRetry" /\ rcall.retries = MaxRetries
  /\ rpc = "returned" /\ Len(sent) = 1
  /\ sent[1].type = "resp" /\ sent[1].status = StatusInternalServerError

\* the answers that authentication does not retry
AuthFinal(o) ==
  /\ o.type = "resp"
  /\ \/ o.status \in {StatusUnauthorized, StatusTooManyRequests}
     \/ o.status = StatusOK /\ o.body = "invalid"

\* C10: an authentication attempt answered with 401, 429 or with 200 and
\* session.valid = false is the last one whatever the budget (one request
\* when it is the first answer); an error is returned and the client's
\* tokens stay unset.
C10_AuthNoRetry ==
  rcall.fn = "authenticateWithRetry" =>
    \A k \in 1..Len(sent) :
      AuthFinal(sent[k]) =>
        /\ k = Len(sent)
        /\ rpc = "returned"
        /\ rresult.kind = "err"
        /\ session = NoSession

C10_Witness ==
  /\ rcall.fn = "authenticateWithRetry" /\ rcall.retries = MaxRetries
  /\ rpc = "returned" /\ Len(sent) = 1
  /\ sent[1].type = "resp" /\ sent[1].status = StatusTooManyRequests

\* a response whose status is not 2xx and is neither 401 nor 429
ApiError(o) ==
  /\ o.type = "resp"
  /\ (o.status < 200 \/ o.status > 299)
  /\ o.status \notin {StatusUnauthorized, StatusTooManyRequests}

\* the call returned what attempt k met: the response itself from
\* makeRequestWithRetry, an error made of its status and body from
\* authenticateWithRetry
Surfaced(k) ==
  /\ rpc = "returned"
  /\ rresult = IF rcall.fn = "makeRequestWithRetry"
                 THEN [kind |-> "resp", status |-> sent[k].status,
                       body |-> sent[k].body]
                 ELSE [kind |-> "err",
                       cause |-> [attempt |-> k - 1, what |-> sent[k]]]

\* C11 (as stated): in the request executor and in authentication alike, a
\* response with a non-2xx status other than 401/429 is never retried and is
\* surfaced with its status and body.
C11_AsStated ==
  \A k \in 1..Len(sent) :
    ApiError(sent[k]) => (k = Len(sent) /\ Surfaced(k))

\* C11 (amended): makeRequestWithRetry never retries such a response and
\* returns it with its status and body; authenticateWithRetry retries it
\* exactly while budget remains and, when none remains, returns an error
\* made of the status and body of that last response.
C11_ApiErrorsSurfaced ==
  \A k \in 1..Len(sent) :
    ApiError(sent[k]) =>
      IF rcall.fn = "makeRequestWithRetry"
        THEN k = Len(sent) /\ Surfaced(k)
        ELSE /\ Retried(k) <=> (k - 1 < rcall.retries)
             /\ ~Retried(k) => Surfaced(k)

\* a 404 with a text body ended a request at its first attempt, budget left
C11_Witness ==
  /\ rcall.fn = "makeRequestWithRetry" /\ rcall.retries = MaxRetries
  /\ Len(sent) = 1
  /\ sent[1].type = "resp" /\ sent[1].status = StatusNotFound
  /\ sent[1].body = "text"
  /\ Surfaced(1)

\* an authentication answer that grants a session
Valid(o) == o.type = "resp" /\ o.status = StatusOK /\ o.body = "valid"

\* C12: when the first k authentication attempts are answered with a failure
\* status and budget remains, the call goes on to attempt k+1; when that
\* attempt is answered with a valid session the call returns success after
\* exactly k+1 requests, within the budget, and the client's tokens are the
\* sid and csrf of that answer.
C12_AuthRecovers ==
  rcall.fn = "authenticateWithRetry" =>
    /\ ((\A j \in 1..Len(sent) : ApiError(sent[j])) /\ Len(sent) <= rcall.retries)
         => rpc = "running"
    /\ \A k \in 1..Len(sent) :
         (Valid(sent[k]) /\ \A j \in 1..(k - 1) : ApiError(sent[j])) =>
           /\ k = Len(sent)
           /\ k <= rcall.retries + 1
           /\ rpc = "returned"
           /\ rresult = [kind |-> "nil"]
           /\ session = [SessionID |-> sent[k].sid, CSRFToken |-> sent[k].csrf]

\* two answers of status 500, then a valid session on the third attempt
C12_Witness ==
  /\ rcall.fn = "authenticateWithRetry" /\ rcall.retries = MaxRetries
  /\ Len(sent) = 3 /\ rpc = "returned"
  /\ sent[1].type = "resp" /\ sent[1].status = StatusInternalServerError
  /\ sent[2].type = "resp" /\ sent[2].status = StatusInternalServerError
  /\ Valid(sent[3])
  /\ session = [SessionID |-> "s2", CSRFToken |-> "c2"]

\* ------------------------------------------------------------------------
\* Claims about the client cache (SpecCache)
\* ------------------------------------------------------------------------
\* the pairs for which a client has been returned since the last clear
Served == {a \in Pairs : given[a] # {}}

\* authentications the environment has failed
FailedAuths == MaxAuthFailures - authBudget

\* C5: callers of getOrCreateClient presenting the same pair all receive the
\* same single client, under every interleaving; and when that pair is the
\* only one presented, exactly one authentication has succeeded for it and
\* no run of NewPiholeClient happened beyond that one and the runs the
\* appliance failed.
C5_CacheSingleton ==
  \A a \in Pairs :
    /\ Cardinality(given[a]) <= 1
    /\ (presented = {a} /\ given[a] # {}) =>
         /\ authOks = 1
         /\ authRuns <= authOks + FailedAuths

\* C5 witness: two callers raced for one pair on an empty cache; one
\* authenticated, the other missed under the read lock and found the entry
\* under the write lock; a single authentication ran.
C5_Witness ==
  \E a \in Pairs, p, q \in Procs :
    /\ presented = {a}
    /\ cpc[p] = "idle" /\ cpc[q] = "idle"
    /\ cret[p].via = "new"
    /\ cret[q].via = "write hit"
    /\ cret[p].client = cret[q].client
    /\ given[a] = {cret[p].client}
    /\ authRuns = 1

\* C6 (as stated): two calls return the same client exactly when they
\* present the same pair, and the cache holds one entry per pair served.
C6_CacheKeyIdentity ==
  /\ \A a, b \in Served : (given[a] \cap given[b] # {}) <=> (a = b)
  /\ Cardinality(DOMAIN clientCache) = Cardinality(Served)

ClearReturns == \E p \in Procs : cpc[p] = "clear lock" /\ cpc'[p] = "idle"

Closed(c) == c.SessionID = "" /\ c.CSRFToken = ""

\* C24: when clearClientCache returns the cache has no entry and every
\* client that was cached has been closed; a client that getOrCreateClient
\* returns afterwards comes from an authentication that succeeded after the
\* clear and is none of the instances cached before it.
C24_ClearEmpties ==
  [][/\ ClearReturns =>
          /\ clientCache' = EmptyMap
          /\ \A k \in DOMAIN clientCache : Closed(clients'[clientCache[k]])
     /\ \A p \in Procs :
          (cret'[p] # cret[p] /\ cret'[p].client # 0) =>
            /\ ~Closed(clients'[cret'[p].client])
            /\ authOks' >= 1
            /\ \E k \in DOMAIN clientCache' : clientCache'[k] = cret'[p].client
    ]_vars

\* after a clear a caller was given a new client for a pair whose earlier
\* client the clear had closed
C24_Witness ==
  \E p \in Procs, old \in 1..Len(clients) :
    /\ clears = 1
    /\ cret[p].via = "new"
    /\ cret[p].client # old
    /\ Closed(clients[old])
    /\ clients[old].BaseURL = clients[cret[p].client].BaseURL
    /\ clients[old].Password = clients[cret[p].client].Password
    /\ DOMAIN clientCache # {}

\* ------------------------------------------------------------------------
\* Claims about callers using a held client (SpecSession)
\* ------------------------------------------------------------------------
\* the headers of a request that carries the tokens obtained at authentication
AuthHeaders == {<<"X-FTL-SID", "sid">>, <<"X-FTL-CSRF", "csrf">>}

\* C13 (as stated): every request sent through makeRequest, by any
\* operation and on any attempt, carries the X-FTL-SID and the X-FTL-CSRF
\* header with the values obtained at authentication.
C13_SessionHeaders ==
  lastSent # NoSent => lastSent.headers = AuthHeaders

\* C14 (as stated): a client whose session token is empty sends no request
\* to a record or configuration endpoint, also when a caller still holds it
\* after clearClientCache emptied its tokens.
C14_NoTrafficWithoutSession ==
  lastSent # NoSent => lastSent.SessionID # ""

\* a caller is about to read a token of a cached client while
\* clearClientCache, which holds no lock the caller takes, is about to
\* write the tokens of every cached client
TokenRace ==
  \E p, q \in Procs :
    /\ qpc[p] \in {"sid", "csrf"}
    /\ \E k \in DOMAIN clientCache : clientCache[k] = qreq[p].client
    /\ cpc[q] = "clear lock"
    /\ CanLock

\* C15 (as stated): the tokens of an authenticated client stay what the
\* authentication made them, and no call reads them while another operation
\* writes them.
C15_TokensWriteOnce ==
  /\ \A c \in 1..Len(clients) :
       clients[c].SessionID = "sid" /\ clients[c].CSRFToken = "csrf"
  /\ ~TokenRace

\* ------------------------------------------------------------------------
\* Claims about configuration calls (SpecConfig)
\* ------------------------------------------------------------------------
\* the value that i segments of parts lead to in doc, and whether they do
RECURSIVE Reached(_, _, _)
Reached(doc, parts, i) ==
  IF i = 0 THEN doc ELSE Reached(doc, parts, i - 1).m[parts[i]]

RECURSIVE Defined(_, _, _)
Defined(doc, parts, i) ==
  \/ i = 0
  \/ /\ Defined(doc, parts, i - 1)
     /\ Reached(doc, parts, i - 1).kind = "map"
     /\ parts[i] \in DOMAIN Reached(doc, parts, i - 1).m

GetOf(section) == ConfigRequest("GET", section, Leaf(<<>>))

\* C18: GetConfig(k) sends one GET of the section named by the first segment
\* of k; when it is answered 200 the call returns, with Key = k, the value
\* that all segments lead to in the appliance's document, fails with "not
\* found" exactly when a segment is absent from the map reached so far, and
\* fails with a structure error exactly when a value reached before the
\* last segment is not a map.
C18_ConfigNavigation ==
  cop.name = "GetConfig" =>
    LET parts == Split(cop.key)
        n == Len(parts)
    IN
    /\ clog = <<GetOf(parts[1])>>
    /\ cres.err # "status" =>
         /\ cres.ok <=> Defined(cprev, parts, n)
         /\ cres.ok => cres.value = [Key |-> cop.key,
                                     Value |-> Unmarshal(Reached(cprev, parts, n))]
         /\ cres.err = "not found" <=>
              \E i \in 1..n : /\ Defined(cprev, parts, i - 1)
                              /\ Reached(cprev, parts, i - 1).kind = "map"
                              /\ parts[i] \notin DOMAIN Reached(cprev, parts, i - 1).m
         /\ cres.err = "structure not as expected" <=>
              \E i \in 1..n : /\ Defined(cprev, parts, i - 1)
                              /\ Reached(cprev, parts, i - 1).kind # "map"

\* a read through a scalar: webserver.port.tls where port is a string
C18_Witness ==
  /\ cop.name = "GetConfig"
  /\ cop.key = <<"webserver", ".", "port", ".", "tls">>
  /\ cres.err = "structure not as expected"

\* documents a and b differ at most in what path leads to
RECURSIVE SameExcept(_, _, _)
SameExcept(a, b, path) ==
  \/ path = <<>>
  \/ /\ a.kind = "map" /\ b.kind = "map"
     /\ DOMAIN b.m = DOMAIN a.m \cup {Head(path)}
     /\ \A k \in DOMAIN a.m \ {Head(path)} : b.m[k] = a.m[k]
     /\ SameExcept(IF Head(path) \in DOMAIN a.m THEN a.m[Head(path)]
                                                ELSE Map(NoMembers),
                   b.m[Head(path)], Tail(path))

\* a document with every number replaced by the float64 nearest to it
RECURSIVE Rounded(_)
Rounded(d) ==
  IF d.kind = "map" THEN Map([k \in DOMAIN d.m |-> Rounded(d.m[k])])
  ELSE IF d.v = <<"9007199254740993">> THEN Leaf(<<"9007199254740992">>)
  ELSE d

SuccessfulSet ==
  /\ cop.name = "SetConfig"
  /\ cres.ok
  /\ Split(cop.key)[1] = <<"webserver">>

\* what GetConfig(cop.key) returns from the appliance as it is now
ReadBack ==
  LET parts == Split(cop.key) IN
  Walk(Unmarshal(ServeConfig(appConfig, GetOf(parts[1])).body).m[<<"config">>], parts)

\* the requests and the frame of a set that found `before` in the section
SetEffect(before) ==
  LET path == Tail(Split(cop.key)) IN
  /\ Len(clog) = 2
  /\ clog[1] = GetOf(<<"webserver">>)
  /\ clog[2].method = "PUT" /\ clog[2].section = <<"webserver">>
  /\ SameExcept(before, clog[2].body, path)
  /\ Reached(clog[2].body, path, Len(path)) = Leaf(MarshalValue(cop.value))
  /\ SameExcept(before, appConfig.m[<<"webserver">>], path)
  /\ \A sec \in DOMAIN cprev.m \ {<<"webserver">>} : appConfig.m[sec] = cprev.m[sec]
  /\ DOMAIN appConfig.m = DOMAIN cprev.m

\* C19 (as stated): for every value v, a successful SetConfig(key, v) of a
\* webserver key sends one GET of the section and then one PUT whose body is
\* the fetched section with only the value at key's path replaced by v;
\* afterwards GetConfig(key) returns v and every other key is as before.
C19_AsStated ==
  SuccessfulSet =>
    /\ SetEffect(cprev.m[<<"webserver">>])
    /\ ReadBack.ok
    /\ ReadBack.value = Leaf(cop.value)

\* C19 (amended): a successful SetConfig(key, v) of a webserver key sends one
\* GET of the section and then one PUT whose body is the fetched section with
\* only the value at key's path replaced by the JSON of v; afterwards
\* GetConfig(key) returns v when v is a bool, a string or a float64, and the
\* float64 nearest to v when v is an integer; every other key, at every level
\* of the section, is as before but for a number that is no float64, which is
\* replaced by the float64 nearest to it; every other section is as before.
C19_ConfigRoundTrip ==
  SuccessfulSet =>
    /\ SetEffect(Rounded(cprev.m[<<"webserver">>]))
    /\ ReadBack.ok
    /\ cop.value.t \in {"bool", "string", "float64"} => ReadBack.value = Leaf(cop.value)
    /\ cop.value.t = "int" =>
         /\ ReadBack.value.v.t = "float64"
         /\ ReadBack.value.v.v = IF cop.value.v = "9007199254740993"
                                   THEN "9007199254740992" ELSE cop.value.v

\* app_sudo was set from false to true next to a sibling that stayed
C19_Witness ==
  /\ SuccessfulSet
  /\ cop.key = <<"webserver", ".", "api", ".", "app_sudo">>
  /\ cop.value = [t |-> "bool", v |-> "true"]
  /\ cprev.m[<<"webserver">>].m[<<"api">>].m[<<"app_sudo">>] = Leaf(<<"false">>)
  /\ <<"max_sessions">> \in DOMAIN cprev.m[<<"webserver">>].m[<<"api">>].m
  /\ <<"max_sessions">> \in DOMAIN appConfig.m[<<"webserver">>].m[<<"api">>].m

OtherNamespace ==
  /\ cop.name \in {"GetConfig", "SetConfig"}
  /\ Split(cop.key)[1] # <<"webserver">>

\* C20 (as stated): a config read or write whose first segment is not
\* webserver is rejected without any request, and the appliance is unchanged.
C20_AsStated ==
  OtherNamespace =>
    /\ clog = <<>>
    /\ ~cres.ok
    /\ appConfig = cprev

\* C20 (amended): such a write is rejected as not supported without any
\* request; such a read sends one GET of the section named by the first
\* segment and no other request; in both the appliance is unchanged.
C20_UnsupportedNamespace ==
  OtherNamespace =>
    /\ appConfig = cprev
    /\ cop.name = "SetConfig" => (clog = <<>> /\ cres = ConfigErr("not yet supported"))
    /\ cop.name = "GetConfig" => clog = <<GetOf(Split(cop.key)[1])>>

\* a write of dns.port was rejected without a request
C20_Witness ==
  /\ cop.name = "SetConfig"
  /\ cop.key = <<"dns", ".", "port">>
  /\ clog = <<>>
  /\ cres = ConfigErr("not yet supported")

\* ------------------------------------------------------------------------
\* Claims about the pihole_config resource (SpecConfigResource)
\* ------------------------------------------------------------------------
Present(doc, key) == Defined(doc, Split(key), Len(Split(key)))

ResetDone ==
  /\ crop.name = "Delete"
  /\ cres.ok

\* C21: deleting a pihole_config resource never removes its key from the
\* appliance; a delete that succeeds has sent one GET of the section and one
\* PUT of the whole section, after which the key is present and holds false,
\* and every other key is as before.
C21_ResetOnRemoval ==
  crop.name = "Delete" =>
    /\ Present(cprev, crop.key) => Present(appConfig, crop.key)
    /\ cop = [name |-> "SetConfig", key |-> crop.key,
              value |-> [t |-> "bool", v |-> "false"]]
    /\ cres.ok =>
         /\ SetEffect(cprev.m[<<"webserver">>])
         /\ Present(appConfig, crop.key)
         /\ ReadBack.ok /\ ReadBack.value = Leaf([t |-> "bool", v |-> "false"])
         /\ ~cstate.present

\* app_sudo was true next to max_sessions and has been reset
C21_Witness ==
  /\ ResetDone
  /\ crop.key = <<"webserver", ".", "api", ".", "app_sudo">>
  /\ cprev.m[<<"webserver">>].m[<<"api">>].m[<<"app_sudo">>] = Leaf(<<"true">>)
  /\ <<"max_sessions">> \in DOMAIN appConfig.m[<<"webserver">>].m[<<"api">>].m


\* C26: on Create and Update the declared string is handed to SetConfig as
\* the boolean true when it is "true" in any letter case, as the boolean
\* false when it is "false" in any letter case, and as the same string
\* otherwise.
C26_BooleanConversion ==
  crop.name \in {"Create", "Update"} =>
    /\ cop.name = "SetConfig"
    /\ cop.key = crop.key
    /\ crop.value \in {"true", "TRUE", "True", "tRuE"} =>
         cop.value = [t |-> "bool", v |-> "true"]
    /\ crop.value \in {"false", "FALSE", "False", "fAlSe"} =>
         cop.value = [t |-> "bool", v |-> "false"]
    /\ crop.value \in {"other", "123"} =>
         cop.value = [t |-> "string", v |-> crop.value]

\* an update declared as TRUE put the JSON boolean true on the appliance
C26_Witness ==
  /\ crop.name = "Update"
  /\ crop.value = "TRUE"
  /\ crop.key = <<"webserver", ".", "api", ".", "app_sudo">>
  /\ cres.ok
  /\ Len(clog) = 2
  /\ clog[2].body.m[<<"api">>].m[<<"app_sudo">>] = Leaf(<<"true">>)

\* ------------------------------------------------------------------------
\* Claims about the stateless functions (SpecFn)
\* ------------------------------------------------------------------------
HasSep(line, sep) == \E i \in 1..Len(line) : line[i] = sep

\* the positions of the lines that hold the separator, in wire order
WellFormed(lines, sep) ==
  SelectSeq([i \in 1..Len(lines) |-> i], LAMBDA i : HasSep(lines[i], sep))

\* C22: list() returns, in wire order, one record per line that holds the
\* separator of its kind, made of the text before the first separator and
\* the text after it (address then domain for hosts, domain then target for
\* aliases); a line without the separator yields no record and no error, and
\* no other line is dropped or altered.
C22_ListDecodes ==
  out.fn = "GetRecords" =>
    LET sep == Sep(arg.kind)
        idx == WellFormed(arg.lines, sep)
        first(r) == IF arg.kind = "hosts" THEN r.Value ELSE r.Domain
        second(r) == IF arg.kind = "hosts" THEN r.Domain ELSE r.Value
    IN
    /\ Len(out.value) = Len(idx)
    /\ \A k \in 1..Len(idx) :
         /\ first(out.value[k]) \o <<sep>> \o second(out.value[k]) = arg.lines[idx[k]]
         /\ ~HasSep(first(out.value[k]), sep)

\* a malformed line was skipped and a line with two spaces was split once
C22_Witness ==
  /\ out.fn = "GetRecords"
  /\ arg.kind = "hosts"
  /\ arg.lines = <<Garbage, <<"v1", " ", "a.lan", " ", "b.lan">>, <<"v1", " ", "a.lan">>>>
  /\ Len(out.value) = 2
  /\ out.value[1] = [Domain |-> <<"a.lan", " ", "b.lan">>, Value |-> <<"v1">>]

Names(ctors) == {ctors[i] : i \in 1..Len(ctors)}

\* C28: the provider registers exactly 3 resources (dns_record,
\* cname_record, config) and exactly 5 data sources (dns_records,
\* cname_records, dns_record, cname_record, config).
C28_Registration ==
  /\ out.fn = "Resources" =>
       /\ Len(out.value) = 3
       /\ Names(out.value) = {"dns_record", "cname_record", "config"}
  /\ out.fn = "DataSources" =>
       /\ Len(out.value) = 5
       /\ Names(out.value) = {"dns_records", "cname_records", "dns_record",
                              "cname_record", "config"}

\* ------------------------------------------------------------------------
\* Claims about a cached client with an invalidated session (SpecStale)
\* ------------------------------------------------------------------------
\* C25: once getOrCreateClient has succeeded for the pair, no later call
\* starts an authentication or changes the client, and every call returns
\* that one instance, also after the appliance has invalidated its session;
\* every operation that completes on the client while its session is
\* invalid returns an error.
C25_NoRefresh ==
  [][/\ authOks >= 1 =>
          /\ authRuns' = authRuns
          /\ clients' = clients
          /\ Cardinality(given'[SessionPair]) = 1
     /\ \A p \in Procs :
          (qpc[p] = "do" /\ qpc'[p] = "idle" /\ qreq[p].client \notin valid) =>
            qres'[p] = "error"
    ]_vars

\* the session was invalidated after one caller's operation had succeeded;
\* the other caller then got the same client from the cache and its
\* operation failed; one authentication ran in all
C25_Witness ==
  \E p, q \in Procs :
    /\ valid = {}
    /\ authRuns = 1 /\ authOks = 1
    /\ qres[q] = "ok"
    /\ cret[p].via = "read hit"
    /\ cret[p].client = cret[q].client
    /\ qpc[p] = "idle" /\ qres[p] = "error"
    /\ lastSent.headers = AuthHeaders

\* ------------------------------------------------------------------------
\* Claims about the record client next to a concurrent writer (SpecRecWriter)
\* ------------------------------------------------------------------------
Count(l, method) == Len(SelectSeq(l, LAMBDA req : req.method = method))

\* the requests of the upsert in progress, or of the one that just returned
UpsertLog ==
  IF call.name = "Create" THEN log
  ELSE IF hist # <<>> /\ hist[Len(hist)].name = "Create" THEN hist[Len(hist)].log
  ELSE <<>>

\* C29: an upsert sends at most three list GETs, one DELETE and one PUT,
\* also when a concurrent writer makes the appliance list the old value
\* again after the DELETE was acknowledged.
C29_UpsertBounded ==
  /\ Count(UpsertLog, "GET") <= 3
  /\ Count(UpsertLog, "DELETE") <= 1
  /\ Count(UpsertLog, "PUT") <= 1

\* ------------------------------------------------------------------------
\* Claims about two callers of the upsert (SpecUpsert)
\* ------------------------------------------------------------------------
\* both callers ran the upsert of one domain with different values, and both
\* have returned
BothReturned ==
  /\ up["g1"].pc = "done"
  /\ up["g2"].pc = "done"
  /\ up["g1"].domain = up["g2"].domain
  /\ up["g1"].value # up["g2"].value

\* C30: after two concurrent upserts of one domain with different values the
\* appliance lists exactly one record of that domain, holding one of the two
\* values.
C30_ConcurrentUpserts ==
  BothReturned =>
    LET held == ValuesOf(store[kind], up["g1"].domain) IN
      /\ Len(held) = 1
      /\ held[1] \in {up["g1"].value, up["g2"].value}

\* ------------------------------------------------------------------------
\* Claims about the record resources (SpecRecordResource)
\* ------------------------------------------------------------------------
\* the positions of the listed lines that decode to a record of the domain
ListedFor(lines, domain) ==
  SelectSeq([i \in 1..Len(lines) |-> i],
            LAMBDA i : \E v \in Values : lines[i] = RecordValue(kind, domain, v))

ReadDone == rop.name = "Read" /\ rop.ok

\* C27 (as stated): when the record of a resource has been deleted on the
\* appliance by another actor, the next Read finds no record with its domain
\* and removes the resource from state.
C27_AsStated ==
  ( /\ ReadDone
    /\ rop.prior.name = "OtherDelete"
    /\ rop.prior.line = RecordValue(kind, rop.before.Domain, rop.before.Value) )
  => ~rstate.present

\* C27 (amended): a Read whose list succeeds removes the resource from state
\* exactly when no record with its domain is listed, and otherwise keeps it
\* with the value of the first listed record of that domain, also when the
\* record it had created was deleted and another one for the domain is
\* listed; a Read whose list fails leaves the state as it was.
C27_DriftDetection ==
  rop.name = "Read" =>
    LET idx == ListedFor(rop.listed, rop.before.Domain) IN
    /\ (rop.ok /\ idx = <<>>) => ~rstate.present
    /\ (rop.ok /\ idx # <<>>) =>
         /\ rstate.present
         /\ rstate.Domain = rop.before.Domain /\ rstate.ID = rop.before.ID
         /\ rop.listed[idx[1]] = RecordValue(kind, rstate.Domain, rstate.Value)
    /\ ~rop.ok => rstate = rop.before

\* the record was deleted by another actor and the Read dropped the resource
C27_Witness ==
  /\ ReadDone
  /\ rop.prior.name = "OtherDelete"
  /\ rop.prior.line = RecordValue(kind, rop.before.Domain, rop.before.Value)
  /\ ~rstate.present

\* ------------------------------------------------------------------------
\* Claims about two callers of SetConfig (SpecConfigRace)
\* ------------------------------------------------------------------------
\* neither key's path is the beginning of the other's
Apart(k1, k2) ==
  LET a == Split(k1)
      b == Split(k2)
      n == IF Len(a) < Len(b) THEN Len(a) ELSE Len(b)
  IN  SubSeq(a, 1, n) # SubSeq(b, 1, n)

\* what the appliance holds for the key a caller wrote
HeldFor(p) ==
  Walk(Unmarshal(appConfig.m[<<"webserver">>]), Tail(Split(up[p].key)))

Written(p) ==
  LET r == HeldFor(p) IN
  r.ok /\ r.value = Leaf(UnmarshalValue(MarshalValue(up[p].value)))

\* C31: after two concurrent SetConfig calls on two different keys of the
\* webserver section have returned successfully, each key holds the value
\* written to it.
C31_NoClobber ==
  (/\ up["g1"].pc = "done" /\ up["g1"].result = "ok"
   /\ up["g2"].pc = "done" /\ up["g2"].result = "ok"
   /\ Apart(up["g1"].key, up["g2"].key))
    => Written("g1") /\ Written("g2")

\* ------------------------------------------------------------------------
\* Claims about failed authentication in the cache (SpecCache)
\* ------------------------------------------------------------------------
\* NewPiholeClient returns an error to caller p
AuthFails(p) == cpc[p] = "auth" /\ cpc'[p] = "idle" /\ cret'[p].via = "error"

\* every entry of the cache is a client that NewPiholeClient returned after
\* a successful authentication, for the key it is stored under
OnlyAuthenticated ==
  \A k \in DOMAIN clientCache :
    /\ clientCache[k] \in 1..Len(clients)
    /\ clients[clientCache[k]].SessionID = "sid"
    /\ CacheKey(clients[clientCache[k]].BaseURL, clients[clientCache[k]].Password) = k

\* C32: when authentication fails inside getOrCreateClient the call returns
\* an error and no client, the cache map is unchanged and holds no entry for
\* the key, and the write lock is released; in every state each cache entry
\* is a client whose authentication succeeded.
C32_OnlyAuthenticatedCached ==
  /\ []OnlyAuthenticated
  /\ [][\A p \in Procs :
          AuthFails(p) =>
            /\ cret'[p].client = 0
            /\ clientCache' = clientCache
            /\ ~Cached(clientCache', KeyOf(p))
            /\ cacheMutex'.writer = "none"
            /\ cacheMutex'.readers = cacheMutex.readers]_vars

\* an authentication has failed and returned, and the cache holds a client
C32_Witness ==
  /\ authBudget < MaxAuthFailures
  /\ \E p \in Procs : cret[p].via = "error" /\ cpc[p] = "idle"
  /\ clientCache # EmptyMap

\* ------------------------------------------------------------------------
\* Claims about the configuration of cached clients (SpecCacheConfig)
\* ------------------------------------------------------------------------
\* getOrCreateClient returns a client to caller p
ClientReturned(p) ==
  /\ cpc[p] \in {"rcheck", "recheck", "auth"}
  /\ cpc'[p] = "idle"
  /\ cret'[p].client # 0

\* C33: the client that getOrCreateClient returns holds the configuration
\* passed in that call, also when the entry was created by an earlier call
\* with another configuration.
C33_ClientConfig ==
  [][\A p \in Procs :
       ClientReturned(p) => clients'[cret'[p].client].Config = creq[p].config]_vars

\* ------------------------------------------------------------------------
\* Claims about a failed list (SpecRecFault)
\* ------------------------------------------------------------------------
\* the answer a list cannot use: no response, a status other than 200, or a
\* body that does not decode
ListAnswerFails(a) == a = NoAnswer \/ a.status # StatusOK \/ a.body = "not json"

\* the last completed call ended at a list request that failed
EndedAtFailedList ==
  /\ pc = "idle" /\ hist # <<>>
  /\ Last.log # <<>>
  /\ Last.log[Len(Last.log)] = ListRequest
  /\ ListAnswerFails(Last.answers[Len(Last.log)])

\* a list that fails is retried after a transport error, and otherwise is
\* the last request of the call, which returns an error
FailedListEnds ==
  (pc = "idle" /\ hist # <<>>) =>
    \A i \in 1..Len(Last.log) :
      (Last.log[i] = ListRequest /\ ListAnswerFails(Last.answers[i])) =>
        IF i < Len(Last.log)
          THEN Last.answers[i] = NoAnswer /\ Last.log[i + 1] = ListRequest
          ELSE ~Last.result.ok

\* C34 (as stated): an upsert or delete whose list request fails returns an
\* error and has sent no PUT and no DELETE.
C34_AsStated ==
  /\ FailedListEnds
  /\ EndedAtFailedList => MutatingOf(Last.log) = <<>>

\* C34 (amended): a failed list ends the call with an error and nothing is
\* sent after it; the call has sent no PUT; a delete has sent no DELETE; an
\* update, or an upsert that found another value listed for the domain, has
\* sent only DELETEs of records of its domain before the list that failed,
\* each answered with success or, after a transport error, sent again.
C34_FailedListStops ==
  /\ FailedListEnds
  /\ EndedAtFailedList =>
       /\ Last.name = "Delete" => MutatingOf(Last.log) = <<>>
       /\ (Last.name = "Create" /\ \A i \in 1..Len(Last.preVals) :
                                      Last.preVals[i] = Last.value)
            => MutatingOf(Last.log) = <<>>
       /\ \A i \in 1..Len(Last.log) :
            Mutating(Last.log[i]) =>
              /\ \E v \in Values : Last.log[i] = DeleteOf(Last.domain, v)
              /\ \/ DeleteOk(Last.answers[i].status)
                 \/ /\ Last.answers[i] = NoAnswer
                    /\ Last.log[i + 1] = Last.log[i]

\* an upsert ended at its first list, answered 200 with a body that is not
\* JSON, having sent nothing else
C34_Witness ==
  /\ EndedAtFailedList
  /\ Last.name = "Create"
  /\ Last.log = <<ListRequest>>
  /\ Last.answers[1] = Answer(StatusOK, "not json")
  /\ ~Last.result.ok

\* ------------------------------------------------------------------------
\* Claims about path errors of config writes (SpecConfig)
\* ------------------------------------------------------------------------
\* a segment before the last one leads to a value that is not a map
BlockedPath(doc, parts) ==
  \E i \in 2..(Len(parts) - 1) :
    Defined(doc, parts, i) /\ Reached(doc, parts, i).kind # "map"

\* a segment before the last one is absent from the map reached so far
AbsentSegment(doc, parts) ==
  \E i \in 2..(Len(parts) - 1) :
    /\ Defined(doc, parts, i - 1)
    /\ Reached(doc, parts, i - 1).kind = "map"
    /\ parts[i] \notin DOMAIN Reached(doc, parts, i - 1).m

\* the GET of the section was answered 200
SectionFetched == ~(Len(clog) = 1 /\ cres.err = "status")

\* C35: a SetConfig of a webserver key that is the namespace segment alone,
\* or that has an intermediate segment with a value that is not a map,
\* returns an error, sends no PUT and leaves the appliance unchanged; when an
\* intermediate segment is absent, the PUT carries the section with an empty
\* map created there and the value set in it.
C35_PathErrors ==
  (cop.name = "SetConfig" /\ Supported(Split(cop.key))) =>
    LET parts == Split(cop.key)
        path == Tail(parts)
    IN
    /\ (Len(parts) < 2 \/ BlockedPath(cprev, parts)) =>
         /\ ~cres.ok
         /\ clog = <<GetOf(<<"webserver">>)>>
         /\ appConfig = cprev
         /\ SectionFetched =>
              cres.err = IF Len(parts) < 2 THEN "invalid key format"
                                           ELSE "not a nested object"
    /\ (Len(parts) >= 2 /\ AbsentSegment(cprev, parts) /\ SectionFetched) =>
         /\ Len(clog) = 2
         /\ clog[2].method = "PUT"
         /\ SameExcept(Rounded(cprev.m[<<"webserver">>]), clog[2].body, path)
         /\ Reached(clog[2].body, path, Len(path)) = Leaf(MarshalValue(cop.value))

\* a write through a scalar: webserver.port.tls where port is a string
C35_Witness ==
  /\ cop.name = "SetConfig"
  /\ cop.key = <<"webserver", ".", "port", ".", "tls">>
  /\ cres.err = "not a nested object"
  /\ appConfig = cprev

\* ------------------------------------------------------------------------
\* Claims about the declared value of the pihole_config resource
\* (SpecConfigResource)
\* ------------------------------------------------------------------------
\* a Read that succeeds right after a Create or Update that succeeded
ReadAfterApply ==
  /\ crop.name \in {"Create", "Update"}
  /\ cres.ok
  /\ crop'.name = "Read"
  /\ cres'.ok

\* C36: the Read that follows a successful Create or Update with the declared
\* string v writes exactly v into state.
C36_DeclaredRoundTrip ==
  [][ReadAfterApply => cstate'.Value = crop.value]_vars

\* ------------------------------------------------------------------------
\* Claims about the frame of the operations (SpecFrame)
\* ------------------------------------------------------------------------
\* the requests of the call in progress and of the call that last returned
FrameLogs ==
  (IF call # NoCall THEN {[name |-> call.name, domain |-> call.domain, log |-> log]}
                    ELSE {})
  \cup {[name |-> hist[i].name, domain |-> hist[i].domain, log |-> hist[i].log] :
          i \in 1..Len(hist)}

\* every request goes to the endpoint of the operation's kind; a list sends
\* no mutating request; an upsert or delete addresses only records of its
\* domain; a config read sends GET requests only
FrameOfRequests ==
  /\ \A c \in FrameLogs :
       \A i \in 1..Len(c.log) :
         /\ c.log[i].ep = kind
         /\ Mutating(c.log[i]) =>
              /\ c.name # "List"
              /\ \E v \in Values :
                   PathUnescape(c.log[i].path) = RecordValue(kind, c.domain, v)
  /\ cop.name = "GetConfig" =>
       /\ \A i \in 1..Len(clog) : clog[i].method = "GET"
       /\ appConfig = cprev

\* a step changes the appliance's records only for the domain of the call in
\* progress, and only under the endpoint of its kind
FrameOfStep ==
  /\ \A k \in Kinds \ {kind} : store'[k] = store[k]
  /\ \A e \in Domains :
       (call = NoCall \/ call.name = "List" \/ e # call.domain) =>
         ValuesOf(store'[kind], e) = ValuesOf(store[kind], e)
  /\ HasLine(store'[kind], Garbage) <=> HasLine(store[kind], Garbage)

\* C37: upsert(d, v) and delete(d) send mutating requests only for composite
\* keys whose domain is d and leave the records of every other domain as
\* they are; operations of one kind send no request to the endpoint of the
\* other kind; lists and config reads send no mutating request.
C37_Frame == []FrameOfRequests /\ [][FrameOfStep]_vars

\* an upsert replaced the value of one domain while another domain has a
\* record
C37_Witness ==
  /\ pc = "idle" /\ hist # <<>>
  /\ Last.name = "Create" /\ Last.result.ok
  /\ Len(MutatingOf(Last.log)) = 2
  /\ \E e \in Domains \ {Last.domain} : ValuesOf(store[kind], e) # <<>>

\* ------------------------------------------------------------------------
\* Claims about the cache lock (SpecCacheLive)
\* ------------------------------------------------------------------------
\* the mutex is held exactly by the callers that are between acquiring and
\* releasing it, and never by a reader and a writer together
LockDiscipline ==
  /\ cacheMutex.readers = {p \in Procs : cpc[p] \in {"rcheck", "size read"}}
  /\ \A p \in Procs : cacheMutex.writer = p <=> cpc[p] \in {"recheck", "auth"}
  /\ cacheMutex.writer \in Procs \cup {"none"}
  /\ cacheMutex.writer # "none" => cacheMutex.readers = {}

OneAuthentication == Cardinality({p \in Procs : cpc[p] = "auth"}) <= 1

\* C38: every read or write lock is released on every path, so the mutex is
\* held only by callers inside getOrCreateClient or getCacheSize; at most one
\* authentication is in progress; and every call returns.
C38_NoDeadlock ==
  /\ [](LockDiscipline /\ OneAuthentication)
  /\ \A p \in Procs : (cpc[p] # "idle") ~> (cpc[p] = "idle")

\* a caller waits for the write lock while another authenticates
C38_Witness ==
  \E p, q \in Procs : cpc[p] = "auth" /\ cpc[q] = "lock"

====
